---------------------------- MODULE Spec2Model ----------------------------
(***************************************************************************)
(* Model of the descriptor registry (package protoregistry, type Files):   *)
(* the package trie filesByPackage, the path index filesByPath, Register,  *)
(* FindDescriptorByName and the Range methods.                             *)
(*                                                                         *)
(* Strings (protoreflect.FullName, protoreflect.Name) are sequences of     *)
(* one-character strings, so that splitPrefix, TrimSuffix and the byte     *)
(* order used by sort.Slice are computed as the code computes them.        *)
(* A trie node is identified by the sequence of Names leading to it from   *)
(* the root; the root is the empty sequence.                               *)
(***************************************************************************)
EXTENDS Naturals, Sequences, FiniteSets, TLC

VARIABLES filesByPackage, filesByPath, call, mi, pc, msg, op, built

vars == <<filesByPackage, filesByPath, call, mi, pc, msg, op, built>>

-----------------------------------------------------------------------------
(* Bounds of the model *)

\* No Register call makes the registry hold more than MaxFiles files.
MaxFiles == 3
\* Longest argument list of one Register call.
MaxBatch == 2

-----------------------------------------------------------------------------
(* Strings *)

Dot == "."

\* The byte value of each character that occurs in a name of the model.
CharCode(c) ==
    CASE c = "." -> 46
      [] c = "M" -> 77
      [] c = "N" -> 78
      [] c = "a" -> 97
      [] c = "b" -> 98

\* s[from..] of a string, as Go's s[from-1:] (indices here start at 1).
Drop(s, n) == SubSeq(s, n + 1, Len(s))
Take(s, n) == SubSeq(s, 1, n)

\* Go's string comparison s < t: bytewise lexicographic.
RECURSIVE StrLess(_, _)
StrLess(s, t) ==
    IF t = <<>> THEN FALSE
    ELSE IF s = <<>> THEN TRUE
    ELSE IF s[1] # t[1] THEN CharCode(s[1]) < CharCode(t[1])
    ELSE StrLess(Tail(s), Tail(t))

\* strings.IndexByte(s, c): the position of the first c in s; 0 when there
\* is none (the code's -1; positions here start at 1).
IndexByte(s, c) ==
    IF \E i \in 1..Len(s) : s[i] = c
    THEN CHOOSE i \in 1..Len(s) : s[i] = c /\ \A j \in 1..(i - 1) : s[j] # c
    ELSE 0

\* strings.HasSuffix(s, suffix)
HasSuffix(s, suffix) ==
    /\ Len(s) >= Len(suffix)
    /\ SubSeq(s, Len(s) - Len(suffix) + 1, Len(s)) = suffix

\* strings.TrimSuffix(s, suffix)
TrimSuffix(s, suffix) ==
    IF HasSuffix(s, suffix) THEN Take(s, Len(s) - Len(suffix)) ELSE s

\* splitPrefix(name): the first dotted segment and the rest.
splitPrefix(name) ==
    LET i == IndexByte(name, Dot)
    IN  IF i > 0 THEN <<Take(name, i - 1), Drop(name, i)>>
        ELSE <<name, <<>>>>

\* protoreflect.FullName.Append: the full name of a child called name.
FullNameAppend(pkg, name) ==
    IF pkg = <<>> THEN name ELSE pkg \o <<Dot>> \o name


-----------------------------------------------------------------------------
(* File descriptors *)

\* The names used by the files of the model.
nA  == <<"a">>
nB  == <<"b">>
nAB == <<"a", "b">>
nM  == <<"M">>
nN  == <<"N">>

\* A protoreflect.FileDescriptor, as far as the registry reads it: Package(),
\* Path(), IsPlaceholder(), the top-level Enums() (each with its Values()),
\* Messages(), Extensions() and Services(), and the names of the declarations
\* nested below a top-level one (relative to the package, as a sequence of
\* Names), which DescriptorByName also resolves.
File(pkg, path, enums, messages, extensions, services, nested, placeholder) ==
    [pkg |-> pkg, path |-> path, enums |-> enums, messages |-> messages,
     extensions |-> extensions, services |-> services, nested |-> nested,
     placeholder |-> placeholder]

Enum(name, values) == [name |-> name, values |-> values]

\* package a: message M (with a nested message N)
fileAM == File(nA, "x", <<>>, <<nM>>, <<>>, <<>>, {<<nM, nN>>}, FALSE)
\* package a, same path as fileAM: message N
fileAN == File(nA, "x", <<>>, <<nN>>, <<>>, <<>>, {}, FALSE)
\* package a: enum N with value M, message b
fileANMb == File(nA, "y", <<Enum(nN, <<nM>>)>>, <<nB>>, <<>>, <<>>, {}, FALSE)
\* package a.b: message M
fileABM == File(<<"a", ".", "b">>, "y", <<>>, <<nM>>, <<>>, <<>>, {}, FALSE)
\* package ab: service M
fileAbM == File(nAB, "x", <<>>, <<>>, <<>>, <<nM>>, {}, FALSE)
\* package a.M.b: no declaration
fileAMb == File(<<"a", ".", "M", ".", "b">>, "y", <<>>, <<>>, <<>>, <<>>, {}, FALSE)
\* the empty package: extension a
fileRootA == File(<<>>, "x", <<>>, <<>>, <<nA>>, <<>>, {}, FALSE)
\* a placeholder file for package a, message M
filePlaceholder == File(nA, "x", <<>>, <<nM>>, <<>>, <<>>, {}, TRUE)
\* package a: enum M with value N and a message N (N declared twice)
fileDup == File(nA, "y", <<Enum(nM, <<nN>>)>>, <<nN>>, <<>>, <<>>, {}, FALSE)

FileUniverse ==
    {fileAM, fileAN, fileANMb, fileABM, fileAbM, fileAMb, fileRootA,
     filePlaceholder, fileDup}

\* The argument lists of Register: 1..MaxBatch files.
RECURSIVE SeqsUpTo(_, _)
SeqsUpTo(S, n) ==
    IF n = 0 THEN {<<>>}
    ELSE LET shorter == SeqsUpTo(S, n - 1)
         IN  shorter \cup {Append(q, x) : q \in shorter, x \in S}

Batches == SeqsUpTo(FileUniverse, MaxBatch) \ {<<>>}

\* rangeTopLevelDeclarations(fd, f): the names f is called with, in order.
RECURSIVE enumDeclarations(_)
enumDeclarations(enums) ==
    IF enums = <<>> THEN <<>>
    ELSE <<Head(enums).name>> \o Head(enums).values \o enumDeclarations(Tail(enums))

rangeTopLevelDeclarations(fd) ==
    enumDeclarations(fd.enums) \o fd.messages \o fd.extensions \o fd.services

\* The full names fd holds a descriptor for: its top-level declarations and
\* the declarations nested in them.
RECURSIVE JoinNames(_)
JoinNames(names) ==
    IF Len(names) = 1 THEN names[1]
    ELSE names[1] \o <<Dot>> \o JoinNames(Tail(names))

DeclaredFullNames(fd) ==
    LET top == rangeTopLevelDeclarations(fd)
    IN  {FullNameAppend(fd.pkg, top[i]) : i \in 1..Len(top)}
          \cup {FullNameAppend(fd.pkg, JoinNames(n)) : n \in fd.nested}

\* A descriptor is identified by the file that holds it and its full name.
NilDescriptor == [kind |-> "nil"]
Descriptor(fd, name) == [kind |-> "descriptor", file |-> fd, name |-> name]

\* fd.DescriptorByName(name): nil unless fd declares name.
DescriptorByName(fd, name) ==
    IF name \in DeclaredFullNames(fd) THEN Descriptor(fd, name) ELSE NilDescriptor

-----------------------------------------------------------------------------
(* The registry: type Files *)

\* The trie filesByPackage, flattened: files maps every node (the sequence of
\* Names from the root) to its list of files, and subs maps node \o <<name>>
\* to what the node's subs map holds for name: "pkg" for a sub-package node,
\* "notProtoPackage" for the sentinel. A missing key is a nil entry.
EmptyFilesByPackage == [files |-> (<<>> :> <<>>), subs |-> <<>>]
EmptyFilesByPath == <<>>

\* root.subs[name]
Sub(fbp, root, name) ==
    IF Append(root, name) \in DOMAIN fbp.subs THEN fbp.subs[Append(root, name)]
    ELSE "nil"

\* root.subs[name] = new(filesByPackage)
AddNode(fbp, root, name) ==
    [files |-> (Append(root, name) :> <<>>) @@ fbp.files,
     subs  |-> (Append(root, name) :> "pkg") @@ fbp.subs]

\* root.subs[name] = notProtoPackage
MarkDeclaration(fbp, root, name) ==
    [fbp EXCEPT !.subs = (Append(root, name) :> "notProtoPackage") @@ fbp.subs]

IsPrefixOf(p, q) == Len(p) <= Len(q) /\ SubSeq(q, 1, Len(p)) = p

\* delete(root.subs, name): the entry goes, and with it whatever was
\* reachable only through it.
DeleteSub(fbp, root, name) ==
    LET gone == Append(root, name)
    IN  [files |-> [n \in {m \in DOMAIN fbp.files : ~IsPrefixOf(gone, m)} |-> fbp.files[n]],
         subs  |-> [k \in {m \in DOMAIN fbp.subs : ~IsPrefixOf(gone, m)} |-> fbp.subs[k]]]

\* AppendFile dropping the list: root.files = []FileDescriptor{file}
replaceFiles(fbp, root, file) ==
    [fbp EXCEPT !.files[root] = <<file>>]

\* root.files = append(root.files, file)
AppendFile(fbp, root, file) ==
    [fbp EXCEPT !.files[root] = Append(@, file)]

\* AppendByPath dropping the list: r.filesByPath[path] = []FileDescriptor{file}
replaceByPath(fbpath, file) ==
    (file.path :> <<file>>) @@ fbpath

\* AppendByPath leaving out a file that the list of its path holds already.
appendByPathUnlessPresent(fbpath, file) ==
    IF file.path \in DOMAIN fbpath
    THEN IF \E i \in 1..Len(fbpath[file.path]) : fbpath[file.path][i] = file
         THEN fbpath
         ELSE [fbpath EXCEPT ![file.path] = Append(@, file)]
    ELSE (file.path :> <<file>>) @@ fbpath

\* r.filesByPath[path] = append(r.filesByPath[path], file)
AppendByPath(fbpath, file) ==
    IF file.path \in DOMAIN fbpath
    THEN [fbpath EXCEPT ![file.path] = Append(@, file)]
    ELSE (file.path :> <<file>>) @@ fbpath

\* errors.New("file %q has a name conflict over %v", path, name)
NilError == [kind |-> "nil"]
ConflictError(path, name) == [kind |-> "conflict", path |-> path, name |-> name]

\* walkPackage taking a marked segment for a sub-package: the mark is
\* replaced by a node and the walk goes on.
RECURSIVE walkPackageThroughMarks(_, _, _)
walkPackageThroughMarks(fbp, root, pkg) ==
    IF Len(pkg) = 0 THEN [fbp |-> fbp, root |-> root, ok |-> TRUE, pkg |-> pkg]
    ELSE LET prefix == splitPrefix(pkg)[1]
             rest   == splitPrefix(pkg)[2]
             next   == Sub(fbp, root, prefix)
         IN  IF next = "pkg"
             THEN walkPackageThroughMarks(fbp, Append(root, prefix), rest)
             ELSE walkPackageThroughMarks(AddNode(fbp, root, prefix),
                                          Append(root, prefix), rest)

\* The package loop of Register: walks pkg from root one segment at a time,
\* adding the missing sub-package nodes. ok is FALSE when a segment is marked
\* notProtoPackage; pkg is then the part of the package after that segment.
RECURSIVE walkPackage(_, _, _)
walkPackage(fbp, root, pkg) ==
    IF Len(pkg) = 0 THEN [fbp |-> fbp, root |-> root, ok |-> TRUE, pkg |-> pkg]
    ELSE LET prefix == splitPrefix(pkg)[1]
             rest   == splitPrefix(pkg)[2]
             next   == Sub(fbp, root, prefix)
         IN  CASE next = "nil" ->
                    walkPackage(AddNode(fbp, root, prefix), Append(root, prefix), rest)
               [] next = "notProtoPackage" ->
                    [fbp |-> fbp, root |-> root, ok |-> FALSE, pkg |-> rest]
               [] OTHER ->
                    walkPackage(fbp, Append(root, prefix), rest)

\* markDeclarations taking only a sub-package for a conflict.
RECURSIVE markUnlessPackage(_, _, _, _)
markUnlessPackage(fbp, root, decls, conflicts) ==
    IF decls = <<>> THEN [fbp |-> fbp, conflicts |-> conflicts]
    ELSE IF Sub(fbp, root, Head(decls)) # "pkg"
         THEN markUnlessPackage(MarkDeclaration(fbp, root, Head(decls)), root,
                                Tail(decls), conflicts)
         ELSE markUnlessPackage(fbp, root, Tail(decls), Append(conflicts, Head(decls)))

\* The first rangeTopLevelDeclarations pass of Register over the names decls:
\* marks every name that root.subs does not hold and collects the others.
RECURSIVE markDeclarations(_, _, _, _)
markDeclarations(fbp, root, decls, conflicts) ==
    IF decls = <<>> THEN [fbp |-> fbp, conflicts |-> conflicts]
    ELSE IF Sub(fbp, root, Head(decls)) = "nil"
         THEN markDeclarations(MarkDeclaration(fbp, root, Head(decls)), root,
                               Tail(decls), conflicts)
         ELSE markDeclarations(fbp, root, Tail(decls), Append(conflicts, Head(decls)))

\* sort.Slice(conflicts, less) with less(i, j) = conflicts[i] < conflicts[j]
RECURSIVE insertSorted(_, _)
insertSorted(sorted, s) ==
    IF sorted = <<>> THEN <<s>>
    ELSE IF StrLess(s, Head(sorted)) THEN <<s>> \o sorted
    ELSE <<Head(sorted)>> \o insertSorted(Tail(sorted), s)

RECURSIVE sortNames(_)
sortNames(names) ==
    IF names = <<>> THEN <<>>
    ELSE insertSorted(sortNames(Tail(names)), Head(names))

\* sort.Search(len(conflicts), func(i) { conflicts[i] >= s }): the first
\* position whose name is not below s, Len + 1 when there is none.
searchNames(conflicts, s) ==
    LET hits == {i \in 1..Len(conflicts) : ~StrLess(conflicts[i], s)}
    IN  IF hits = {} THEN Len(conflicts) + 1
        ELSE CHOOSE i \in hits : \A j \in hits : i <= j

\* unmarkDeclarations with the test inverted: deletes the names in conflicts.
RECURSIVE unmarkConflicts(_, _, _, _)
unmarkConflicts(fbp, root, decls, conflicts) ==
    IF decls = <<>> THEN fbp
    ELSE LET s   == Head(decls)
             i   == searchNames(conflicts, s)
             has == i <= Len(conflicts) /\ conflicts[i] = s
         IN  unmarkConflicts(IF has THEN DeleteSub(fbp, root, s) ELSE fbp,
                             root, Tail(decls), conflicts)

\* The second pass: deletes every name of decls that is not in conflicts.
RECURSIVE unmarkDeclarations(_, _, _, _)
unmarkDeclarations(fbp, root, decls, conflicts) ==
    IF decls = <<>> THEN fbp
    ELSE LET s   == Head(decls)
             i   == searchNames(conflicts, s)
             has == i <= Len(conflicts) /\ conflicts[i] = s
         IN  unmarkDeclarations(IF has THEN fbp ELSE DeleteSub(fbp, root, s),
                                root, Tail(decls), conflicts)

\* keepFirstErr without the nil test: the last error wins.
keepLastErr(firstErr, err) == err

\* if firstErr == nil { firstErr = err }
keepFirstErr(firstErr, err) ==
    IF firstErr = NilError THEN err ELSE firstErr

\* The pass of the fileLoop without the test of IsPlaceholder.
registerPlaceholderToo(st, file) ==
    LET walk == walkPackage(st.filesByPackage, <<>>, file.pkg)
    IN  IF ~walk.ok
        THEN LET name == TrimSuffix(TrimSuffix(file.pkg, walk.pkg), <<Dot>>)
             IN  [filesByPackage |-> walk.fbp,
                  filesByPath    |-> st.filesByPath,
                  firstErr       |-> keepFirstErr(st.firstErr,
                                                  ConflictError(file.path, name)),
                  outcomes       |-> Append(st.outcomes, "packageConflict")]
        ELSE
        LET decls  == rangeTopLevelDeclarations(file)
            marked == markDeclarations(walk.fbp, walk.root, decls, <<>>)
        IN  IF Len(marked.conflicts) > 0
            THEN LET conflicts == sortNames(marked.conflicts)
                 IN  [filesByPackage |-> unmarkDeclarations(marked.fbp, walk.root,
                                                            decls, conflicts),
                      filesByPath    |-> st.filesByPath,
                      firstErr       |-> keepFirstErr(st.firstErr,
                                             ConflictError(file.path,
                                                 FullNameAppend(file.pkg, conflicts[1]))),
                      outcomes       |-> Append(st.outcomes, "nameConflict")]
            ELSE [filesByPackage |-> AppendFile(marked.fbp, walk.root, file),
                  filesByPath    |-> AppendByPath(st.filesByPath, file),
                  firstErr       |-> st.firstErr,
                  outcomes       |-> Append(st.outcomes, "accepted")]

\* One pass of Register's fileLoop over file. st holds the registry and
\* firstErr; outcomes records, per file, the way the pass ended.
registerFile(st, file) ==
    IF file.placeholder
    THEN [st EXCEPT !.outcomes = Append(@, "skipped")]
    ELSE
    LET walk == walkPackage(st.filesByPackage, <<>>, file.pkg)
    IN  IF ~walk.ok
        THEN LET name == TrimSuffix(TrimSuffix(file.pkg, walk.pkg), <<Dot>>)
             IN  [filesByPackage |-> walk.fbp,
                  filesByPath    |-> st.filesByPath,
                  firstErr       |-> keepFirstErr(st.firstErr,
                                                  ConflictError(file.path, name)),
                  outcomes       |-> Append(st.outcomes, "packageConflict")]
        ELSE
        LET decls  == rangeTopLevelDeclarations(file)
            marked == markDeclarations(walk.fbp, walk.root, decls, <<>>)
        IN  IF Len(marked.conflicts) > 0
            THEN LET conflicts == sortNames(marked.conflicts)
                 IN  [filesByPackage |-> unmarkDeclarations(marked.fbp, walk.root,
                                                            decls, conflicts),
                      filesByPath    |-> st.filesByPath,
                      firstErr       |-> keepFirstErr(st.firstErr,
                                             ConflictError(file.path,
                                                 FullNameAppend(file.pkg, conflicts[1]))),
                      outcomes       |-> Append(st.outcomes, "nameConflict")]
            ELSE [filesByPackage |-> AppendFile(marked.fbp, walk.root, file),
                  filesByPath    |-> AppendByPath(st.filesByPath, file),
                  firstErr       |-> st.firstErr,
                  outcomes       |-> Append(st.outcomes, "accepted")]

\* Register(files...): the fileLoop over the argument list.
RECURSIVE registerLoop(_, _)
registerLoop(st, files) ==
    IF files = <<>> THEN st
    ELSE registerLoop(registerFile(st, Head(files)), Tail(files))

RegisterResult(fbp, fbpath, files) ==
    registerLoop([filesByPackage |-> fbp, filesByPath |-> fbpath,
                  firstErr |-> NilError, outcomes |-> <<>>], files)

-----------------------------------------------------------------------------
(* Lookups *)

\* The receiver of a lookup: a *Files, which may be nil.
NilFiles == [isNil |-> TRUE]
FilesOf(fbp, fbpath) == [isNil |-> FALSE, filesByPackage |-> fbp, filesByPath |-> fbpath]

\* NewFiles(files...): a new registry, Register(files...) on it with the
\* error ignored, and the registry returned.
NewFiles(files) ==
    LET res == RegisterResult(EmptyFilesByPackage, EmptyFilesByPath, files)
    IN  FilesOf(res.filesByPackage, res.filesByPath)

NotFound == "not found"
FindResult(d, err) == [d |-> d, err |-> err]

\* searchFiles without the test d != nil: the first file's answer is returned.
searchFirstFile(files, name) ==
    IF files = <<>> THEN FindResult(NilDescriptor, NotFound)
    ELSE FindResult(Descriptor(Head(files), name), "nil")

\* The loop over root.files in FindDescriptorByName: the first descriptor
\* some file of the list holds for name.
RECURSIVE searchFiles(_, _)
searchFiles(files, name) ==
    IF files = <<>> THEN FindResult(NilDescriptor, NotFound)
    ELSE IF DescriptorByName(Head(files), name) # NilDescriptor
         THEN FindResult(DescriptorByName(Head(files), name), "nil")
         ELSE searchFiles(Tail(files), name)

\* findFrom searching the files of the trie's root, not those of root.
RECURSIVE findInRootFiles(_, _, _, _)
findInRootFiles(fbp, root, pkg, name) ==
    IF Len(pkg) = 0 THEN FindResult(NilDescriptor, NotFound)
    ELSE LET prefix == splitPrefix(pkg)[1]
             rest   == splitPrefix(pkg)[2]
             next   == Sub(fbp, root, prefix)
         IN  CASE next = "nil" -> FindResult(NilDescriptor, NotFound)
               [] next = "notProtoPackage" -> searchFiles(fbp.files[<<>>], name)
               [] OTHER -> findInRootFiles(fbp, Append(root, prefix), rest, name)

\* The segment loop of FindDescriptorByName, at node root with pkg left.
RECURSIVE findFrom(_, _, _, _)
findFrom(fbp, root, pkg, name) ==
    IF Len(pkg) = 0 THEN FindResult(NilDescriptor, NotFound)
    ELSE LET prefix == splitPrefix(pkg)[1]
             rest   == splitPrefix(pkg)[2]
             next   == Sub(fbp, root, prefix)
         IN  CASE next = "nil" -> FindResult(NilDescriptor, NotFound)
               [] next = "notProtoPackage" -> searchFiles(fbp.files[root], name)
               [] OTHER -> findFrom(fbp, Append(root, prefix), rest, name)

FindDescriptorByName(r, name) ==
    IF r.isNil THEN FindResult(NilDescriptor, NotFound)
    ELSE findFrom(r.filesByPackage, <<>>, name, name)

\* A callback f of a Range method is modelled by the set stop of the files it
\* returns false for. A traversal is the sequence of files f was called with.
Visit(visited, ok) == [visited |-> visited, ok |-> ok]

\* The loop over a file list that ends after its first file.
scanFirstFile(files, stop, visited) ==
    IF files = <<>> THEN Visit(visited, TRUE)
    ELSE Visit(Append(visited, Head(files)), Head(files) \notin stop)

\* for _, fd := range files { if !f(fd) { return false } }
RECURSIVE scanFiles(_, _, _)
scanFiles(files, stop, visited) ==
    IF files = <<>> THEN Visit(visited, TRUE)
    ELSE IF Head(files) \in stop THEN Visit(Append(visited, Head(files)), FALSE)
    ELSE scanFiles(Tail(files), stop, Append(visited, Head(files)))

\* The keys of the subs map of node.
SubKeys(fbp, node) ==
    {k \in DOMAIN fbp.subs : Len(k) = Len(node) + 1 /\ IsPrefixOf(node, k)}

RECURSIVE rangeFiles(_, _, _)
RECURSIVE rangeSubs(_, _, _, _)

\* rangeSubs ignoring what rangeFiles returns for a sub-package: the loop
\* goes on with the next key after f returned false.
RECURSIVE rangeSubsIgnoringStop(_, _, _, _)
rangeSubsIgnoringStop(fbp, keys, stop, visited) ==
    IF keys = {} THEN {Visit(visited, TRUE)}
    ELSE UNION {
           UNION {rangeSubsIgnoringStop(fbp, keys \ {k}, stop, visited \o sub.visited)
                  : sub \in rangeFiles(fbp, k, stop)}
           : k \in keys}

\* The loop "for _, fs := range fs.subs" of rangeFiles over the keys left,
\* taken in any order: the traversals it can make after visited.
rangeSubs(fbp, keys, stop, visited) ==
    IF keys = {} THEN {Visit(visited, TRUE)}
    ELSE UNION {
           UNION {
             IF sub.ok
             THEN rangeSubs(fbp, keys \ {k}, stop, visited \o sub.visited)
             ELSE {Visit(visited \o sub.visited, FALSE)}
             : sub \in rangeFiles(fbp, k, stop)}
           : k \in keys}

\* rangeFiles with its two loops swapped: the sub-packages first.
rangeSubsFirst(fbp, node, stop) ==
    IF node # <<>> /\ fbp.subs[node] = "notProtoPackage"
    THEN {Visit(<<>>, TRUE)}
    ELSE {IF below.ok THEN scanFiles(fbp.files[node], stop, below.visited) ELSE below
          : below \in rangeSubs(fbp, SubKeys(fbp, node), stop, <<>>)}

\* rangeFiles(fs, f) for the value fs held under the key node (<<>>: the
\* trie's root): the set of traversals it can make.
rangeFiles(fbp, node, stop) ==
    IF node # <<>> /\ fbp.subs[node] = "notProtoPackage"
    THEN {Visit(<<>>, TRUE)}
    ELSE LET exact == scanFiles(fbp.files[node], stop, <<>>)
         IN  IF ~exact.ok THEN {exact}
             ELSE rangeSubs(fbp, SubKeys(fbp, node), stop, exact.visited)

\* The descent of RangeFilesByPackage: root = root.subs[prefix] while pkg is
\* not empty and root is not nil. The result is nil or the key of subs (<<>>
\* for the trie's root) that holds the value reached.
NilNode == [isNil |-> TRUE]
NodeAt(key) == [isNil |-> FALSE, key |-> key]

RECURSIVE descend(_, _, _)
descend(fbp, root, pkg) ==
    IF Len(pkg) = 0 THEN NodeAt(root)
    ELSE LET prefix == splitPrefix(pkg)[1]
             rest   == splitPrefix(pkg)[2]
         IN  IF root # <<>> /\ fbp.subs[root] = "notProtoPackage" THEN NilNode
             ELSE IF Sub(fbp, root, prefix) = "nil" THEN NilNode
             ELSE descend(fbp, Append(root, prefix), rest)

\* RangeFilesByPackage without the test for a trailing dot.
rangeByPackageNoDotTest(r, pkg, stop) ==
    IF r.isNil THEN {<<>>}
    ELSE LET root == descend(r.filesByPackage, <<>>, pkg)
         IN  IF root.isNil THEN {<<>>}
             ELSE {v.visited : v \in rangeFiles(r.filesByPackage, root.key, stop)}

\* RangeFilesByPackage(pkg, f): the traversals it can make.
RangeFilesByPackage(r, pkg, stop) ==
    IF r.isNil THEN {<<>>}
    ELSE IF HasSuffix(pkg, <<Dot>>) THEN {<<>>}
    ELSE LET root == descend(r.filesByPackage, <<>>, pkg)
         IN  IF root.isNil THEN {<<>>}
             ELSE {v.visited : v \in rangeFiles(r.filesByPackage, root.key, stop)}

\* RangeFiles(f)
RangeFiles(r, stop) == RangeFilesByPackage(r, <<>>, stop)

\* RangeFilesByPath(path, f): the traversal it makes.
RangeFilesByPath(r, path, stop) ==
    IF r.isNil THEN <<>>
    ELSE IF path \in DOMAIN r.filesByPath
         THEN scanFiles(r.filesByPath[path], stop, <<>>).visited
         ELSE <<>>

-----------------------------------------------------------------------------
(* Message types: type MessageType and its lazy initialization *)

\* A Go type (reflect.Type) is modelled by its name. NilType is the nil
\* reflect.Type: what reflect.TypeOf gives for a nil interface value, and the
\* zero value of the field goType. T is the struct generated for the message
\* descriptor, U the same struct without the field tagged 2, and E the same
\* struct with an embedded (anonymous) struct field before its other fields,
\* which has no protobuf tag.
NilType == "nil"

PointerTypes == {"*T", "*U", "*E", "*int"}
SliceTypes == {"[]T", "[]int"}

\* The values p given to MessageOf, KnownFieldsOf and UnknownFieldsOf, each
\* modelled by its type: pointers, a struct value, slices, the nil interface.
Records == PointerTypes \cup {"T"} \cup SliceTypes \cup {NilType}

\* reflect.Type.Kind
Kind(t) ==
    CASE t \in PointerTypes -> "Ptr"
      [] t \in SliceTypes -> "Slice"
      [] t \in {"T", "U", "E"} -> "Struct"
      [] t = "int" -> "Int"

\* reflect.Type.Elem: it panics for a type that is no array, chan, map,
\* pointer or slice.
ElemPanics(t) == Kind(t) \notin {"Ptr", "Slice"}

Elem(t) ==
    CASE t = "*T" -> "T"
      [] t = "*U" -> "U"
      [] t = "*E" -> "E"
      [] t = "[]T" -> "T"
      [] t \in {"*int", "[]int"} -> "int"

\* A field descriptor (protoreflect.FieldDescriptor). A field outside a oneof
\* has the oneof name NoOneof: OneofType() is nil.
NoOneof == ""

FieldDesc(number, name, kind, cardinality, isMap, isWeak, oneof, default, syntax) ==
    [number |-> number, name |-> name, kind |-> kind, cardinality |-> cardinality,
     isMap |-> isMap, isWeak |-> isWeak, oneof |-> oneof, default |-> default,
     syntax |-> syntax]

MessageDesc(name, fields) == [name |-> name, fields |-> fields]

\* The message descriptors of the model. Scalar values are 0 and 1: 0 is the
\* zero value of the kind, 1 the declared default of the fields that have one.
mdProto2 ==
    MessageDesc("Proto2",
        <<FieldDesc(1, "f1", "int32", "optional", FALSE, FALSE, NoOneof, 1, "proto2"),
          FieldDesc(2, "f2", "int32", "optional", FALSE, FALSE, NoOneof, 0, "proto2"),
          FieldDesc(3, "f3", "message", "optional", FALSE, FALSE, NoOneof, 0, "proto2")>>)

mdProto3 ==
    MessageDesc("Proto3",
        <<FieldDesc(1, "f1", "int32", "optional", FALSE, FALSE, NoOneof, 0, "proto3"),
          FieldDesc(2, "f2", "int32", "optional", FALSE, FALSE, NoOneof, 0, "proto3")>>)

\* A map field is also repeated and of message kind.
mdContainers ==
    MessageDesc("Containers",
        <<FieldDesc(1, "f1", "message", "repeated", TRUE, FALSE, NoOneof, 0, "proto2"),
          FieldDesc(2, "f2", "message", "repeated", FALSE, FALSE, NoOneof, 0, "proto2")>>)

mdOneof ==
    MessageDesc("Oneof",
        <<FieldDesc(1, "f1", "message", "optional", FALSE, FALSE, "u", 0, "proto2"),
          FieldDesc(2, "f2", "int32", "optional", FALSE, FALSE, "u", 1, "proto2"),
          FieldDesc(3, "f3", "int32", "optional", FALSE, FALSE, NoOneof, 1, "proto2")>>)

mdWeak ==
    MessageDesc("Weak",
        <<FieldDesc(1, "f1", "int32", "optional", FALSE, FALSE, NoOneof, 1, "proto2"),
          FieldDesc(2, "f2", "message", "optional", FALSE, TRUE, "u", 0, "proto2"),
          FieldDesc(3, "f3", "int32", "optional", FALSE, FALSE, NoOneof, 0, "proto2")>>)

Descriptors == {mdProto2, mdProto3, mdContainers, mdOneof, mdWeak}

FieldNumbers(md) == {md.fields[i].number : i \in 1..Len(md.fields)}

FieldByNumber(md, n) ==
    md.fields[CHOOSE i \in 1..Len(md.fields) : md.fields[i].number = n]

\* The first part of generateFieldFuncs: the maps fields, oneofs and
\* oneofFields it reads from the struct tags of t and from XXX_OneofFuncs,
\* each modelled by its key set, and special, which is empty for T, U and
\* E. The loop over t.Field(i) passes over a field that has no protobuf or
\* protobuf_oneof tag and no special name: the embedded field of E.
structTags(t, md) ==
    LET missing == IF t = "U" THEN {2} ELSE {}
        plain   == {i \in 1..Len(md.fields) :
                      md.fields[i].oneof = NoOneof /\ ~md.fields[i].isWeak}
        members == {i \in 1..Len(md.fields) : md.fields[i].oneof # NoOneof}
    IN  [fields      |-> {md.fields[i].number : i \in plain} \ missing,
         oneofs      |-> {md.fields[i].oneof : i \in members},
         oneofFields |-> {md.fields[i].number : i \in members} \ missing,
         special     |-> {}]

\* The switch of generateFieldFuncs with the message test first.
classifyMessageFirst(fd) ==
    IF fd.kind \in {"message", "group"} THEN "message"
    ELSE IF fd.isWeak THEN "weak"
    ELSE IF fd.oneof # NoOneof THEN "oneof"
    ELSE IF fd.isMap THEN "map"
    ELSE IF fd.cardinality = "repeated" THEN "vector"
    ELSE "scalar"

\* The switch of generateFieldFuncs: the fieldInfoFor... function it calls
\* for fd, named by the variant it builds.
classify(fd) ==
    IF fd.isWeak THEN "weak"
    ELSE IF fd.oneof # NoOneof THEN "oneof"
    ELSE IF fd.isMap THEN "map"
    ELSE IF fd.cardinality = "repeated" THEN "vector"
    ELSE IF fd.kind \in {"message", "group"} THEN "message"
    ELSE "scalar"

\* fieldInfoForWeak, ...ForOneof, ...ForMap, ...ForVector, ...ForMessage and
\* ...ForScalar: the dispatcher of a variant for fd, or a panic when the
\* struct has no field for fd; weak fields are not supported.
FieldInfo(variant, fd) == [variant |-> variant, fd |-> fd]

fieldInfoFor(variant, fd, tags) ==
    LET found == CASE variant = "weak" -> FALSE
                   [] variant = "oneof" ->
                        fd.oneof \in tags.oneofs /\ fd.number \in tags.oneofFields
                   [] OTHER -> fd.number \in tags.fields
    IN  IF found THEN [panic |-> FALSE, fi |-> FieldInfo(variant, fd)]
        ELSE [panic |-> TRUE, fi |-> FieldInfo("none", fd)]

\* The map mi.fields: nil until generateFieldFuncs makes it.
NilFields == [isNil |-> TRUE, tab |-> <<>>]
EmptyFields == [isNil |-> FALSE, tab |-> <<>>]

\* sync.Once: done, and the caller that holds its mutex.
Free == "free"
NewOnce == [done |-> FALSE, m |-> Free]
OnceDone == [done |-> TRUE, m |-> Free]

\* MessageType{Desc: md}
NewMessageType(md) ==
    [Desc |-> md, once |-> NewOnce, goType |-> NilType, pbType |-> "nil",
     fields |-> NilFields]

\* The callers (goroutines) and where each is: at is idle, or the step of
\* init it is about to take (once, shape, generate, field, check), or facade
\* when it holds what the entry point returned. i is the index of the loop
\* over md.Fields(); out is how the caller's last call ended.
Callers == {"c1", "c2"}

NoPanic == "none"
ShapePanic == "panic: want *struct kind"
BuildPanic == "panic: generateFieldFuncs"
MismatchPanic == "panic: type mismatch"

At(at, p, entry, i) == [at |-> at, p |-> p, entry |-> entry, i |-> i, out |-> NoPanic]
Idle(out) == [at |-> "idle", p |-> NilType, entry |-> "none", i |-> 0, out |-> out]

\* The result of the last call on a facade, and what the model records of
\* the run of f: the calls of generateFieldFuncs, the calls of the
\* fieldInfoFor functions, and whether f has returned.
NoOp == [op |-> "none"]
NothingBuilt == [runs |-> 0, calls |-> <<>>, returned |-> FALSE]

\* An entry point is called with p, and mi.init(p) begins.
\* func (mi *MessageType) MessageOf(p interface{}) pref.Message
MessageOf(c, p) ==
    /\ pc[c].at = "idle"
    /\ op = NoOp
    /\ pc' = [pc EXCEPT ![c] = At("once", p, "MessageOf", 0)]
    /\ UNCHANGED <<filesByPackage, filesByPath, call, mi, msg, op, built>>

\* func (mi *MessageType) KnownFieldsOf(p interface{}) pref.KnownFields
KnownFieldsOf(c, p) ==
    /\ pc[c].at = "idle"
    /\ op = NoOp
    /\ pc' = [pc EXCEPT ![c] = At("once", p, "KnownFieldsOf", 0)]
    /\ UNCHANGED <<filesByPackage, filesByPath, call, mi, msg, op, built>>

\* func (mi *MessageType) UnknownFieldsOf(p interface{}) pref.UnknownFields
UnknownFieldsOf(c, p) ==
    /\ pc[c].at = "idle"
    /\ op = NoOp
    /\ pc' = [pc EXCEPT ![c] = At("once", p, "UnknownFieldsOf", 0)]
    /\ UNCHANGED <<filesByPackage, filesByPath, call, mi, msg, op, built>>

\* Once.Do that binds the type of p again when done is set.
OnceDoRebinding(c) ==
    /\ pc[c].at = "once"
    /\ \/ /\ mi.once.done
          /\ pc' = [pc EXCEPT ![c].at = "check"]
          /\ mi' = [mi EXCEPT !.goType = pc[c].p]
       \/ /\ ~mi.once.done
          /\ mi.once.m = Free
          /\ pc' = [pc EXCEPT ![c].at = "shape"]
          /\ mi' = [mi EXCEPT !.once.m = c]
    /\ UNCHANGED <<filesByPackage, filesByPath, call, msg, op, built>>

\* mi.once.Do(f): return when done is set; else take the mutex, which blocks
\* while another caller holds it, and run f when done is still unset.
OnceDo(c) ==
    /\ pc[c].at = "once"
    /\ \/ /\ mi.once.done
          /\ pc' = [pc EXCEPT ![c].at = "check"]
          /\ mi' = mi
       \/ /\ ~mi.once.done
          /\ mi.once.m = Free
          /\ pc' = [pc EXCEPT ![c].at = "shape"]
          /\ mi' = [mi EXCEPT !.once.m = c]
    /\ UNCHANGED <<filesByPackage, filesByPath, call, msg, op, built>>

\* f panics: the deferred calls of Once.Do set done and release the mutex,
\* and the panic ends the caller's call.
abort(c, out) ==
    /\ mi' = [mi EXCEPT !.once = OnceDone]
    /\ pc' = [pc EXCEPT ![c] = Idle(out)]

\* The test of f on the type of p; TRUE when f panics there.
shapePanics(t) ==
    \/ t = NilType
    \/ /\ Kind(t) # "Ptr"
       /\ \/ ElemPanics(t)
          \/ Kind(Elem(t)) # "Struct"

\* The start of f: the test of the type of p, mi.goType = t, mi.pbType.
InitShape(c) ==
    /\ pc[c].at = "shape"
    /\ IF shapePanics(pc[c].p)
       THEN abort(c, ShapePanic)
       ELSE /\ mi' = [mi EXCEPT !.goType = pc[c].p, !.pbType = "GoMessage"]
            /\ pc' = [pc EXCEPT ![c].at = "generate"]
    /\ UNCHANGED <<filesByPackage, filesByPath, call, msg, op, built>>

\* mi.generateFieldFuncs(t.Elem(), md) up to mi.fields = map{}: t.NumField
\* panics when t is no struct.
GenerateFieldFuncs(c) ==
    /\ pc[c].at = "generate"
    /\ built' = [built EXCEPT !.runs = @ + 1]
    /\ IF Kind(Elem(pc[c].p)) # "Struct"
       THEN abort(c, BuildPanic)
       ELSE /\ mi' = [mi EXCEPT !.fields = EmptyFields]
            /\ pc' = [pc EXCEPT ![c].at = "field", ![c].i = 1]
    /\ UNCHANGED <<filesByPackage, filesByPath, call, msg, op>>

\* One pass of the loop over md.Fields(): a dispatcher for field i, stored
\* under its number. After the last field f returns, and Once.Do sets done
\* and releases the mutex.
ClassifyField(c) ==
    /\ pc[c].at = "field"
    /\ LET fd == mi.Desc.fields[pc[c].i]
           r  == fieldInfoFor(classify(fd), fd, structTags(Elem(pc[c].p), mi.Desc))
       IN  /\ built' = [built EXCEPT
                          !.calls = Append(@, [number |-> fd.number,
                                               variant |-> classify(fd)]),
                          !.returned = ~r.panic /\ pc[c].i = Len(mi.Desc.fields)]
           /\ IF r.panic
              THEN abort(c, BuildPanic)
              ELSE IF pc[c].i < Len(mi.Desc.fields)
              THEN /\ mi' = [mi EXCEPT !.fields.tab = (fd.number :> r.fi) @@ @]
                   /\ pc' = [pc EXCEPT ![c].i = @ + 1]
              ELSE /\ mi' = [mi EXCEPT !.fields.tab = (fd.number :> r.fi) @@ @,
                                       !.once = OnceDone]
                   /\ pc' = [pc EXCEPT ![c].at = "check"]
    /\ UNCHANGED <<filesByPackage, filesByPath, call, msg, op>>

\* The end of init without its test.
TypeCheckSkipped(c) ==
    /\ pc[c].at = "check"
    /\ pc' = [pc EXCEPT ![c].at = "facade"]
    /\ UNCHANGED <<filesByPackage, filesByPath, call, mi, msg, op, built>>

\* The end of init: reflect.TypeOf(p) != mi.goType panics; else init returns
\* and the entry point returns its facade of p.
TypeCheck(c) ==
    /\ pc[c].at = "check"
    /\ IF pc[c].p # mi.goType
       THEN pc' = [pc EXCEPT ![c] = Idle(MismatchPanic)]
       ELSE pc' = [pc EXCEPT ![c].at = "facade"]
    /\ UNCHANGED <<filesByPackage, filesByPath, call, mi, msg, op, built>>

\* The caller drops the facade.
Release(c) ==
    /\ pc[c].at = "facade"
    /\ op = NoOp
    /\ pc' = [pc EXCEPT ![c] = Idle(NoPanic)]
    /\ UNCHANGED <<filesByPackage, filesByPath, call, mi, msg, op, built>>

-----------------------------------------------------------------------------
(* The record and the known-fields facade *)

\* A slot per field, also for the members of a oneof.
SlotPerField(fd) == fd.name

\* The record p of the bound type: one storage slot per struct field. A
\* oneof group has one slot, named by the group; another field has the slot
\* of its name. A slot holds a pointer to a scalar or to a message (present,
\* v), a slice (list), a map (map), or the active member of a oneof and its
\* value (active, v).
SlotName(fd) == IF fd.oneof # NoOneof THEN fd.oneof ELSE fd.name

ZeroSlot == [present |-> FALSE, v |-> 0, list |-> <<>>, map |-> <<>>, active |-> 0]

ZeroMessage(md) ==
    [s \in {SlotName(md.fields[i]) : i \in 1..Len(md.fields)} |-> ZeroSlot]

\* protoreflect.Value: a scalar, a message, a vector or a map, or the zero
\* Value, which is invalid.
MakeValue(type, v, list, map) == [type |-> type, v |-> v, list |-> list, map |-> map]
InvalidValue == MakeValue("invalid", 0, <<>>, <<>>)
ValueOf(x) == MakeValue("scalar", x, <<>>, <<>>)
VectorOf(list) == MakeValue("vector", 0, list, <<>>)
MapOf(map) == MakeValue("map", 0, <<>>, map)

Scalars == {0, 1}
MapKeys == {1, 2}

\* pointer.apply: p.v.Elem().FieldByIndex(f).Addr() panics unless p.v is a
\* pointer to a struct.
applyPanics(t) ==
    \/ t = NilType
    \/ Kind(t) # "Ptr"
    \/ Kind(Elem(t)) # "Struct"

\* has that takes a repeated field or a map for present once its slot exists.
hasForEveryContainer(fi, m) ==
    LET slot == m[SlotName(fi.fd)]
    IN  CASE fi.variant = "scalar" ->
               IF fi.fd.syntax = "proto2" THEN slot.present ELSE slot.v # 0
          [] fi.variant = "message" -> slot.present
          [] fi.variant = "vector" -> TRUE
          [] fi.variant = "map" -> TRUE
          [] fi.variant = "oneof" -> slot.active = fi.fd.number

\* The capability functions has, get, set, clear and mutable of a dispatcher
\* fi, on the record m.
has(fi, m) ==
    LET slot == m[SlotName(fi.fd)]
    IN  CASE fi.variant = "scalar" ->
               IF fi.fd.syntax = "proto2" THEN slot.present ELSE slot.v # 0
          [] fi.variant = "message" -> slot.present
          [] fi.variant = "vector" -> Len(slot.list) > 0
          [] fi.variant = "map" -> DOMAIN slot.map # {}
          [] fi.variant = "oneof" -> slot.active = fi.fd.number

get(fi, m) ==
    LET slot == m[SlotName(fi.fd)]
    IN  CASE fi.variant = "scalar" ->
               IF fi.fd.syntax = "proto2"
               THEN ValueOf(IF slot.present THEN slot.v ELSE fi.fd.default)
               ELSE ValueOf(slot.v)
          [] fi.variant = "message" -> MakeValue("message", slot.v, <<>>, <<>>)
          [] fi.variant = "vector" -> VectorOf(slot.list)
          [] fi.variant = "map" -> MapOf(slot.map)
          [] fi.variant = "oneof" ->
               ValueOf(IF slot.active = fi.fd.number THEN slot.v ELSE fi.fd.default)

\* set that marks every scalar present, as for explicit presence.
setWithPresence(fi, m, val) ==
    LET name == SlotName(fi.fd)
    IN  CASE fi.variant = "scalar" ->
               [m EXCEPT ![name].present = TRUE, ![name].v = val.v]
          [] fi.variant = "message" ->
               [m EXCEPT ![name].present = TRUE, ![name].v = val.v]
          [] fi.variant = "vector" -> [m EXCEPT ![name].list = val.list]
          [] fi.variant = "map" -> [m EXCEPT ![name].map = val.map]
          [] fi.variant = "oneof" ->
               [m EXCEPT ![name].active = fi.fd.number, ![name].v = val.v]

set(fi, m, val) ==
    LET name == SlotName(fi.fd)
    IN  CASE fi.variant = "scalar" ->
               [m EXCEPT ![name].present = (fi.fd.syntax = "proto2"),
                         ![name].v = val.v]
          [] fi.variant = "message" ->
               [m EXCEPT ![name].present = TRUE, ![name].v = val.v]
          [] fi.variant = "vector" -> [m EXCEPT ![name].list = val.list]
          [] fi.variant = "map" -> [m EXCEPT ![name].map = val.map]
          [] fi.variant = "oneof" ->
               [m EXCEPT ![name].active = fi.fd.number, ![name].v = val.v]

\* clear that resets the slot of a oneof for any of its members.
clearWholeGroup(fi, m) ==
    [m EXCEPT ![SlotName(fi.fd)] = ZeroSlot]

clear(fi, m) ==
    LET name == SlotName(fi.fd)
    IN  IF fi.variant = "oneof" /\ m[name].active # fi.fd.number THEN m
        ELSE [m EXCEPT ![name] = ZeroSlot]

\* mutable: the handle of a vector or a map, the sub-message, which it
\* allocates when the field holds none; not applicable to a scalar or to a
\* member of a oneof.
mutablePanics(fi) == fi.variant \in {"scalar", "oneof"}

mutable(fi, m) ==
    IF fi.variant = "message"
    THEN [m EXCEPT ![SlotName(fi.fd)].present = TRUE]
    ELSE m

\* The values given to Set for the field number n.
SetValues(fields, n) ==
    IF n \notin DOMAIN fields.tab THEN {ValueOf(x) : x \in Scalars}
    ELSE CASE fields.tab[n].variant = "vector" -> {VectorOf(<<>>), VectorOf(<<1>>)}
           [] fields.tab[n].variant = "map" -> {MapOf(<<>>), MapOf(<<1>>)}
           [] fields.tab[n].variant = "message" ->
                {MakeValue("message", x, <<>>, <<>>) : x \in Scalars}
           [] OTHER -> {ValueOf(x) : x \in Scalars}

\* What a call on the facade gives: whether it panicked, the record after
\* it, and what it returned.
Result(panic, m, b, cnt, val) ==
    [panic |-> panic, msg |-> m, b |-> b, cnt |-> cnt, val |-> val]

Returned(m, b, cnt, val) == Result(FALSE, m, b, cnt, val)
Panicked(m) == Result(TRUE, m, FALSE, 0, InvalidValue)

\* A knownFields value: the pointer to the record, by its type, and the
\* fields of its MessageType.
KnownFields(t, fields) == [p |-> t, fields |-> fields]

\* Len that counts every entry of the table.
knownFieldsLenOfTable(fs, m) ==
    Returned(m, FALSE, Cardinality(DOMAIN fs.fields.tab), InvalidValue)

\* func (fs *knownFields) Len() (cnt int)
knownFieldsLen(fs, m) ==
    IF DOMAIN fs.fields.tab # {} /\ applyPanics(fs.p) THEN Panicked(m)
    ELSE Returned(m, FALSE,
                  Cardinality({n \in DOMAIN fs.fields.tab : has(fs.fields.tab[n], m)}),
                  InvalidValue)

\* func (fs *knownFields) Has(n pref.FieldNumber) bool
knownFieldsHas(fs, m, n) ==
    IF n \in DOMAIN fs.fields.tab
    THEN IF applyPanics(fs.p) THEN Panicked(m)
         ELSE Returned(m, has(fs.fields.tab[n], m), 0, InvalidValue)
    ELSE Returned(m, FALSE, 0, InvalidValue)

\* func (fs *knownFields) Get(n pref.FieldNumber) pref.Value
knownFieldsGet(fs, m, n) ==
    IF n \in DOMAIN fs.fields.tab
    THEN IF applyPanics(fs.p) THEN Panicked(m)
         ELSE Returned(m, FALSE, 0, get(fs.fields.tab[n], m))
    ELSE Returned(m, FALSE, 0, InvalidValue)

\* Set that returns for a number with no dispatcher.
knownFieldsSetIgnoringUnknown(fs, m, n, val) ==
    IF n \in DOMAIN fs.fields.tab
    THEN IF applyPanics(fs.p) THEN Panicked(m)
         ELSE Returned(set(fs.fields.tab[n], m, val), FALSE, 0, InvalidValue)
    ELSE Returned(m, FALSE, 0, InvalidValue)

\* Set that writes the field into a record with every other slot reset.
knownFieldsSetOnZeroRecord(fs, m, n, val) ==
    IF n \in DOMAIN fs.fields.tab
    THEN IF applyPanics(fs.p) THEN Panicked(m)
         ELSE Returned(set(fs.fields.tab[n], [s \in DOMAIN m |-> ZeroSlot], val),
                       FALSE, 0, InvalidValue)
    ELSE Panicked(m)

\* func (fs *knownFields) Set(n pref.FieldNumber, v pref.Value)
knownFieldsSet(fs, m, n, val) ==
    IF n \in DOMAIN fs.fields.tab
    THEN IF applyPanics(fs.p) THEN Panicked(m)
         ELSE Returned(set(fs.fields.tab[n], m, val), FALSE, 0, InvalidValue)
    ELSE Panicked(m)

\* Clear that returns without calling the dispatcher.
knownFieldsClearSkipped(fs, m, n) ==
    IF n \in DOMAIN fs.fields.tab
    THEN IF applyPanics(fs.p) THEN Panicked(m)
         ELSE Returned(m, FALSE, 0, InvalidValue)
    ELSE Panicked(m)

\* func (fs *knownFields) Clear(n pref.FieldNumber)
knownFieldsClear(fs, m, n) ==
    IF n \in DOMAIN fs.fields.tab
    THEN IF applyPanics(fs.p) THEN Panicked(m)
         ELSE Returned(clear(fs.fields.tab[n], m), FALSE, 0, InvalidValue)
    ELSE Panicked(m)

\* func (fs *knownFields) Mutable(n pref.FieldNumber) pref.Mutable
knownFieldsMutable(fs, m, n) ==
    IF n \in DOMAIN fs.fields.tab
    THEN IF applyPanics(fs.p) \/ mutablePanics(fs.fields.tab[n]) THEN Panicked(m)
         ELSE Returned(mutable(fs.fields.tab[n], m), FALSE, 0, InvalidValue)
    ELSE Panicked(m)

\* The callback f of Range is modelled by the set stop of the field numbers
\* it returns false for. A traversal is the sequence of the calls of f, each
\* a field number and a value.
RECURSIVE rangeFieldsNoStop(_, _, _, _, _)
\* The loop of Range that goes on after f has returned false.
rangeFieldsNoStop(fs, m, keys, stop, visited) ==
    IF keys = {} THEN {visited}
    ELSE UNION {
           rangeFieldsNoStop(fs, m, keys \ {n}, stop,
               IF has(fs.fields.tab[n], m)
               THEN Append(visited, <<n, get(fs.fields.tab[n], m)>>)
               ELSE visited)
           : n \in keys}

RECURSIVE rangeFields(_, _, _, _, _)
\* The loop "for n, fi := range fs.mi.fields" of Range over the keys left,
\* taken in any order: the traversals it can make after visited.
rangeFields(fs, m, keys, stop, visited) ==
    IF keys = {} THEN {visited}
    ELSE UNION {
           IF has(fs.fields.tab[n], m)
           THEN IF n \in stop
                THEN {Append(visited, <<n, get(fs.fields.tab[n], m)>>)}
                ELSE rangeFields(fs, m, keys \ {n}, stop,
                                 Append(visited, <<n, get(fs.fields.tab[n], m)>>))
           ELSE rangeFields(fs, m, keys \ {n}, stop, visited)
           : n \in keys}

\* func (fs *knownFields) Range(f func(pref.FieldNumber, pref.Value) bool):
\* whether it panics, and the traversals it can make.
knownFieldsRange(fs, m, stop) ==
    IF DOMAIN fs.fields.tab # {} /\ applyPanics(fs.p)
    THEN [panic |-> TRUE, visits |-> {<<>>}]
    ELSE [panic |-> FALSE,
          visits |-> rangeFields(fs, m, DOMAIN fs.fields.tab, stop, <<>>)]

\* The largest length of a repeated field.
MaxLen == 3

\* The field numbers given to the facade: those of the descriptors, and 4,
\* which no descriptor has.
OpNumbers == {1, 2, 3, 4}

\* The knownFields of a caller that holds a facade: MessageOf gives a message,
\* whose KnownFields are those KnownFieldsOf gives.
HoldsKnownFields(c) ==
    /\ pc[c].at = "facade"
    /\ pc[c].entry \in {"MessageOf", "KnownFieldsOf"}

fsOf(c) == KnownFields(pc[c].p, mi.fields)

\* The record of a call on the facade, kept in op until the caller takes it.
Op(name, c, n, val, stop, res, visited) ==
    [op |-> name, c |-> c, n |-> n, arg |-> val, stop |-> stop,
     panic |-> res.panic, b |-> res.b, cnt |-> res.cnt, val |-> res.val,
     visited |-> visited, before |-> msg]

FieldsLen(c) ==
    /\ HoldsKnownFields(c)
    /\ op = NoOp
    /\ LET res == knownFieldsLen(fsOf(c), msg)
       IN  /\ op' = Op("Len", c, 0, InvalidValue, {}, res, <<>>)
           /\ msg' = res.msg
    /\ UNCHANGED <<filesByPackage, filesByPath, call, mi, pc, built>>

FieldsHas(c, n) ==
    /\ HoldsKnownFields(c)
    /\ op = NoOp
    /\ LET res == knownFieldsHas(fsOf(c), msg, n)
       IN  /\ op' = Op("Has", c, n, InvalidValue, {}, res, <<>>)
           /\ msg' = res.msg
    /\ UNCHANGED <<filesByPackage, filesByPath, call, mi, pc, built>>

FieldsGet(c, n) ==
    /\ HoldsKnownFields(c)
    /\ op = NoOp
    /\ LET res == knownFieldsGet(fsOf(c), msg, n)
       IN  /\ op' = Op("Get", c, n, InvalidValue, {}, res, <<>>)
           /\ msg' = res.msg
    /\ UNCHANGED <<filesByPackage, filesByPath, call, mi, pc, built>>

FieldsSet(c, n, val) ==
    /\ HoldsKnownFields(c)
    /\ op = NoOp
    /\ LET res == knownFieldsSet(fsOf(c), msg, n, val)
       IN  /\ op' = Op("Set", c, n, val, {}, res, <<>>)
           /\ msg' = res.msg
    /\ UNCHANGED <<filesByPackage, filesByPath, call, mi, pc, built>>

FieldsClear(c, n) ==
    /\ HoldsKnownFields(c)
    /\ op = NoOp
    /\ LET res == knownFieldsClear(fsOf(c), msg, n)
       IN  /\ op' = Op("Clear", c, n, InvalidValue, {}, res, <<>>)
           /\ msg' = res.msg
    /\ UNCHANGED <<filesByPackage, filesByPath, call, mi, pc, built>>

FieldsMutable(c, n) ==
    /\ HoldsKnownFields(c)
    /\ op = NoOp
    /\ LET res == knownFieldsMutable(fsOf(c), msg, n)
       IN  /\ op' = Op("Mutable", c, n, InvalidValue, {}, res, <<>>)
           /\ msg' = res.msg
    /\ UNCHANGED <<filesByPackage, filesByPath, call, mi, pc, built>>

FieldsRange(c, stop) ==
    /\ HoldsKnownFields(c)
    /\ op = NoOp
    /\ LET r == knownFieldsRange(fsOf(c), msg, stop)
       IN  \E visited \in r.visits :
             op' = Op("Range", c, 0, InvalidValue, stop,
                      IF r.panic THEN Panicked(msg)
                      ELSE Returned(msg, FALSE, 0, InvalidValue), visited)
    /\ UNCHANGED <<filesByPackage, filesByPath, call, mi, pc, msg, built>>

\* The calls on the handle that Mutable has just returned for a repeated
\* field or a map field: Append and Truncate of a vector, Set and Clear of a
\* map.
HoldsHandle(c, variant) ==
    /\ op.op = "Mutable"
    /\ op.c = c
    /\ ~op.panic
    /\ mi.fields.tab[op.n].variant = variant

\* The slot of the field the handle is for.
HandleSlot == SlotName(mi.fields.tab[op.n].fd)

VectorAppend(c, x) ==
    /\ HoldsHandle(c, "vector")
    /\ Len(msg[HandleSlot].list) < MaxLen
    /\ op' = [op EXCEPT !.op = "Append", !.arg = ValueOf(x), !.before = msg]
    /\ msg' = [msg EXCEPT ![HandleSlot] = [@ EXCEPT !.list = Append(@, x)]]
    /\ UNCHANGED <<filesByPackage, filesByPath, call, mi, pc, built>>

\* Truncate that keeps the last k elements.
VectorTruncateTail(c, k) ==
    /\ HoldsHandle(c, "vector")
    /\ k <= Len(msg[HandleSlot].list)
    /\ op' = [op EXCEPT !.op = "Truncate", !.arg = ValueOf(k), !.before = msg]
    /\ msg' = [msg EXCEPT ![HandleSlot] =
                 [@ EXCEPT !.list = SubSeq(@, Len(@) - k + 1, Len(@))]]
    /\ UNCHANGED <<filesByPackage, filesByPath, call, mi, pc, built>>

VectorTruncate(c, k) ==
    /\ HoldsHandle(c, "vector")
    /\ k <= Len(msg[HandleSlot].list)
    /\ op' = [op EXCEPT !.op = "Truncate", !.arg = ValueOf(k), !.before = msg]
    /\ msg' = [msg EXCEPT ![HandleSlot] = [@ EXCEPT !.list = SubSeq(@, 1, k)]]
    /\ UNCHANGED <<filesByPackage, filesByPath, call, mi, pc, built>>

\* Set of a map that keeps the value of a key that is present.
MapSetKeepingOld(c, k, x) ==
    /\ HoldsHandle(c, "map")
    /\ op' = [op EXCEPT !.op = "MapSet", !.arg = MakeValue("scalar", x, <<k>>, <<>>), !.before = msg]
    /\ msg' = [msg EXCEPT ![HandleSlot] = [@ EXCEPT !.map = @ @@ (k :> x)]]
    /\ UNCHANGED <<filesByPackage, filesByPath, call, mi, pc, built>>

MapSet(c, k, x) ==
    /\ HoldsHandle(c, "map")
    /\ op' = [op EXCEPT !.op = "MapSet", !.arg = MakeValue("scalar", x, <<k>>, <<>>), !.before = msg]
    /\ msg' = [msg EXCEPT ![HandleSlot] = [@ EXCEPT !.map = (k :> x) @@ @]]
    /\ UNCHANGED <<filesByPackage, filesByPath, call, mi, pc, built>>

MapClear(c, k) ==
    /\ HoldsHandle(c, "map")
    /\ op' = [op EXCEPT !.op = "MapClear", !.arg = MakeValue("scalar", 0, <<k>>, <<>>), !.before = msg]
    /\ msg' = [msg EXCEPT ![HandleSlot] = [@ EXCEPT !.map = [j \in DOMAIN @ \ {k} |-> @[j]]]]
    /\ UNCHANGED <<filesByPackage, filesByPath, call, mi, pc, built>>

\* The further calls on a handle: Len, Get and Set of a vector, with an
\* index from 0, which panic for an index that is not below the length; Len,
\* Has, Get and Range of a map.
VectorLen(c) ==
    /\ HoldsHandle(c, "vector")
    /\ op' = [op EXCEPT !.op = "VectorLen", !.cnt = Len(msg[HandleSlot].list),
                        !.before = msg]
    /\ UNCHANGED <<filesByPackage, filesByPath, call, mi, pc, msg, built>>

VectorGet(c, i) ==
    /\ HoldsHandle(c, "vector")
    /\ op' = [op EXCEPT !.op = "VectorGet",
                        !.arg = MakeValue("scalar", 0, <<i>>, <<>>),
                        !.panic = (i >= Len(msg[HandleSlot].list)),
                        !.val = IF i < Len(msg[HandleSlot].list)
                                THEN ValueOf(msg[HandleSlot].list[i + 1])
                                ELSE InvalidValue,
                        !.before = msg]
    /\ UNCHANGED <<filesByPackage, filesByPath, call, mi, pc, msg, built>>

VectorSet(c, i, x) ==
    /\ HoldsHandle(c, "vector")
    /\ op' = [op EXCEPT !.op = "VectorSet",
                        !.arg = MakeValue("scalar", x, <<i>>, <<>>),
                        !.panic = (i >= Len(msg[HandleSlot].list)),
                        !.before = msg]
    /\ msg' = IF i < Len(msg[HandleSlot].list)
              THEN [msg EXCEPT ![HandleSlot] = [@ EXCEPT !.list[i + 1] = x]]
              ELSE msg
    /\ UNCHANGED <<filesByPackage, filesByPath, call, mi, pc, built>>

MapLen(c) ==
    /\ HoldsHandle(c, "map")
    /\ op' = [op EXCEPT !.op = "MapLen",
                        !.cnt = Cardinality(DOMAIN msg[HandleSlot].map),
                        !.before = msg]
    /\ UNCHANGED <<filesByPackage, filesByPath, call, mi, pc, msg, built>>

MapHas(c, k) ==
    /\ HoldsHandle(c, "map")
    /\ op' = [op EXCEPT !.op = "MapHas",
                        !.arg = MakeValue("scalar", 0, <<k>>, <<>>),
                        !.b = (k \in DOMAIN msg[HandleSlot].map),
                        !.before = msg]
    /\ UNCHANGED <<filesByPackage, filesByPath, call, mi, pc, msg, built>>

MapGet(c, k) ==
    /\ HoldsHandle(c, "map")
    /\ op' = [op EXCEPT !.op = "MapGet",
                        !.arg = MakeValue("scalar", 0, <<k>>, <<>>),
                        !.val = IF k \in DOMAIN msg[HandleSlot].map
                                THEN ValueOf(msg[HandleSlot].map[k])
                                ELSE InvalidValue,
                        !.before = msg]
    /\ UNCHANGED <<filesByPackage, filesByPath, call, mi, pc, msg, built>>

\* The traversals of Range of a map over the keys left, in any order, with a
\* callback that returns false for the keys of stop.
RECURSIVE rangeMap(_, _, _, _)
rangeMap(map, keys, stop, visited) ==
    IF keys = {} THEN {visited}
    ELSE UNION {
           IF k \in stop THEN {Append(visited, <<k, ValueOf(map[k])>>)}
           ELSE rangeMap(map, keys \ {k}, stop, Append(visited, <<k, ValueOf(map[k])>>))
           : k \in keys}

MapRange(c, stop) ==
    /\ HoldsHandle(c, "map")
    /\ \E visited \in rangeMap(msg[HandleSlot].map, DOMAIN msg[HandleSlot].map,
                               stop, <<>>) :
         op' = [op EXCEPT !.op = "MapRange", !.stop = stop, !.visited = visited,
                          !.before = msg]
    /\ UNCHANGED <<filesByPackage, filesByPath, call, mi, pc, msg, built>>

\* The caller takes the result of its call on the facade.
OpReturn ==
    /\ op # NoOp
    /\ op' = NoOp
    /\ UNCHANGED <<filesByPackage, filesByPath, call, mi, pc, msg, built>>


-----------------------------------------------------------------------------
(* Field locators: type pointer and type offset *)

\* The Go types a locator can address, as the sequence of their type
\* constructors: <<"*", "T">> is *T. Base is the type of the embedded field
\* of E, a struct with one field; any other struct field has a type of its
\* own that is no struct, named by its struct and its index.
reflectType(p) ==
    CASE p = "*T" -> <<"*", "T">>
      [] p = "*U" -> <<"*", "U">>
      [] p = "*E" -> <<"*", "E">>
      [] p = "*int" -> <<"*", "int">>
      [] p = "T" -> <<"T">>
      [] p = "[]T" -> <<"[]", "T">>
      [] p = "[]int" -> <<"[]", "int">>

StructTypes == {<<"T">>, <<"U">>, <<"E">>, <<"Base">>}

TypeKind(t) ==
    CASE Head(t) = "*" -> "Ptr"
      [] Head(t) = "[]" -> "Slice"
      [] t \in StructTypes -> "Struct"
      [] OTHER -> "Other"

TypeElem(t) == Tail(t)
PtrTo(t) == <<"*">> \o t

\* reflect.Type.NumField and reflect.Type.Field(i).Type of a struct type: T
\* has one field per storage slot of the descriptor md, E those after its
\* embedded field.
NumField(t, md) ==
    CASE t = <<"Base">> -> 1
      [] t = <<"E">> -> Cardinality(DOMAIN ZeroMessage(md)) + 1
      [] OTHER -> Cardinality(DOMAIN ZeroMessage(md))

FieldType(t, i) ==
    IF t = <<"E">> /\ i = 0 THEN <<"Base">>
    ELSE <<"field">> \o t \o [j \in 1..i |-> "'"]

\* A reflect.Value that is a pointer: its type, whether it is nil, and the
\* path of struct field indexes from the record to what it points to. The
\* zero Value is invalid.
Value(typ, isNil, path) == [valid |-> TRUE, typ |-> typ, isNil |-> isNil, path |-> path]
ZeroValue == [valid |-> FALSE, typ |-> <<>>, isNil |-> TRUE, path |-> <<>>]

\* What a function of a locator gives: whether it panicked, and the pointer
\* or the Value it returned.
LocatorResult(panic, v) == [panic |-> panic, v |-> v]

\* func offsetOf(f reflect.StructField) offset, for a struct field with the
\* index sequence index
offsetOf(index) ==
    IF Len(index) # 1 THEN LocatorResult(TRUE, <<>>)
    ELSE LocatorResult(FALSE, index)

\* func pointerOfIface(v *interface{}) pointer, for a record p that is a nil
\* pointer when isNil
pointerOfIface(p, isNil) ==
    IF p = NilType THEN ZeroValue
    ELSE Value(reflectType(p), isNil /\ TypeKind(reflectType(p)) = "Ptr", <<>>)

\* apply that does not look at what the pointer addresses.
applyUntested(p, f, md) ==
    IF p.valid /\ Len(p.typ) > 1
    THEN LocatorResult(FALSE, Value(PtrTo(FieldType(TypeElem(p.typ), f[1])), FALSE,
                                    p.path \o f))
    ELSE LocatorResult(TRUE, ZeroValue)

\* func (p pointer) apply(f offset) pointer:
\* p.v.Elem().FieldByIndex(f).Addr() panics unless p.v is a pointer that is
\* not nil, to a struct that has a field f.
apply(p, f, md) ==
    IF /\ p.valid
       /\ TypeKind(p.typ) = "Ptr"
       /\ ~p.isNil
       /\ TypeKind(TypeElem(p.typ)) = "Struct"
       /\ f[1] < NumField(TypeElem(p.typ), md)
    THEN LocatorResult(FALSE, Value(PtrTo(FieldType(TypeElem(p.typ), f[1])), FALSE,
                                    p.path \o f))
    ELSE LocatorResult(TRUE, ZeroValue)

\* func (p pointer) asType(t reflect.Type) reflect.Value: p.v.Type() panics
\* for the zero Value, Elem() for a type that has no element type.
asType(p, t) ==
    IF ~p.valid \/ TypeKind(p.typ) \notin {"Ptr", "Slice"}
    THEN LocatorResult(TRUE, ZeroValue)
    ELSE IF TypeElem(p.typ) # t THEN LocatorResult(TRUE, ZeroValue)
    ELSE LocatorResult(FALSE, p)

\* The largest struct field index given to apply, and the index sequences
\* of the struct fields given to offsetOf: none (the zero StructField), a
\* field of the struct, and a field of an embedded struct.
MaxField == 3
FieldIndexes == {<<>>} \cup {<<i>> : i \in 0..MaxField} \cup {<<0, 0>>}

\* The record of a call of a locator function, kept in op until the caller
\* takes it: the locator it was called on, its argument, and its result.
LocatorOp(name, parent, f, t, res) ==
    [op |-> name, parent |-> parent, f |-> f, t |-> t, panic |-> res.panic,
     res |-> res.v, before |-> msg]

\* The caller holds the locator that the last call returned.
HoldsLocator ==
    /\ op # NoOp
    /\ op.op \in {"pointerOfIface", "apply", "asType"}
    /\ ~op.panic

\* The types given to asType for the locator the caller holds.
AsTypes ==
    IF HoldsLocator
    THEN {<<"T">>, <<"int">>}
           \cup (IF op.res.valid /\ Len(op.res.typ) > 1
                 THEN {TypeElem(op.res.typ)} ELSE {})
    ELSE {}

OffsetOf(index) ==
    /\ op = NoOp
    /\ op' = LocatorOp("offsetOf", ZeroValue, index, <<>>, offsetOf(index))
    /\ UNCHANGED <<filesByPackage, filesByPath, call, mi, pc, msg, built>>

PointerOfIface(p, isNil) ==
    /\ op = NoOp
    /\ op' = LocatorOp("pointerOfIface", ZeroValue, <<>>, <<>>,
                       LocatorResult(FALSE, pointerOfIface(p, isNil)))
    /\ UNCHANGED <<filesByPackage, filesByPath, call, mi, pc, msg, built>>

Apply(f) ==
    /\ HoldsLocator
    /\ ~offsetOf(f).panic
    /\ op' = LocatorOp("apply", op.res, f, <<>>, apply(op.res, offsetOf(f).v, mi.Desc))
    /\ UNCHANGED <<filesByPackage, filesByPath, call, mi, pc, msg, built>>

AsType(t) ==
    /\ HoldsLocator
    /\ op' = LocatorOp("asType", op.res, <<>>, t, asType(op.res, t))
    /\ UNCHANGED <<filesByPackage, filesByPath, call, mi, pc, msg, built>>

binderVars == <<mi, pc, msg, op, built>>

BinderInit(md) ==
    /\ mi = NewMessageType(md)
    /\ pc = [c \in Callers |-> Idle(NoPanic)]
    /\ msg = ZeroMessage(md)
    /\ op = NoOp
    /\ built = NothingBuilt

-----------------------------------------------------------------------------
(* The calls made on the registry *)

\* The names given to the lookups: every name a file of the model declares,
\* every package, and every substring of these, which gives the names with a
\* leading or trailing dot, the package prefixes, the names with no trie node
\* and the empty name.
Substrings(s) ==
    {SubSeq(s, i, j) : i \in 1..(Len(s) + 1), j \in 0..Len(s)}

KnownNames == UNION {DeclaredFullNames(f) \cup {f.pkg} : f \in FileUniverse}
LookupNames == UNION {Substrings(n) : n \in KnownNames}
LookupPackages == UNION {Substrings(f.pkg) : f \in FileUniverse}
LookupPaths == {"x", "y", "z"}

\* The registry as a receiver, and the number of files it holds.
R == FilesOf(filesByPackage, filesByPath)

RECURSIVE SumLen(_, _)
SumLen(f, keys) ==
    IF keys = {} THEN 0
    ELSE LET k == CHOOSE x \in keys : TRUE
         IN  Len(f[k]) + SumLen(f, keys \ {k})

NumFiles(fbp) == SumLen(fbp.files, DOMAIN fbp.files)

RegisteredFiles(fbp) ==
    UNION {{fbp.files[n][i] : i \in 1..Len(fbp.files[n])} : n \in DOMAIN fbp.files}

NoCall == [op |-> "none"]

RegistryIdle ==
    /\ filesByPackage = EmptyFilesByPackage
    /\ filesByPath = EmptyFilesByPath
    /\ call = NoCall

Init == RegistryIdle /\ BinderInit(mdProto2)

\* r.Register(files...)
Register(files) ==
    /\ call = NoCall
    /\ NumFiles(filesByPackage) + Len(files) <= MaxFiles
    /\ LET res == RegisterResult(filesByPackage, filesByPath, files)
       IN  /\ filesByPackage' = res.filesByPackage
           /\ filesByPath' = res.filesByPath
           /\ call' = [op |-> "Register", files |-> files, err |-> res.firstErr,
                       outcomes |-> res.outcomes]
    /\ UNCHANGED binderVars

\* A lookup that adds the first segment of the name to the trie as a package.
FindAddingNode(r, name) ==
    /\ call = NoCall
    /\ call' = [op |-> "FindDescriptorByName", nilReceiver |-> r.isNil,
                name |-> name, res |-> FindDescriptorByName(r, name)]
    /\ filesByPackage' =
         IF Len(name) > 0 /\ Sub(filesByPackage, <<>>, splitPrefix(name)[1]) = "nil"
         THEN AddNode(filesByPackage, <<>>, splitPrefix(name)[1])
         ELSE filesByPackage
    /\ UNCHANGED filesByPath
    /\ UNCHANGED binderVars

\* r.FindDescriptorByName(name)
Find(r, name) ==
    /\ call = NoCall
    /\ call' = [op |-> "FindDescriptorByName", nilReceiver |-> r.isNil,
                name |-> name, res |-> FindDescriptorByName(r, name)]
    /\ UNCHANGED <<filesByPackage, filesByPath>>
    /\ UNCHANGED binderVars

\* r.RangeFilesByPackage(pkg, f), f returning false for the files of stop
RangeByPackage(r, pkg, stop) ==
    /\ call = NoCall
    /\ \E visited \in RangeFilesByPackage(r, pkg, stop) :
         call' = [op |-> "RangeFilesByPackage", nilReceiver |-> r.isNil,
                  pkg |-> pkg, stop |-> stop, visited |-> visited]
    /\ UNCHANGED <<filesByPackage, filesByPath>>
    /\ UNCHANGED binderVars

\* r.RangeFiles(f)
RangeAll(r, stop) ==
    /\ call = NoCall
    /\ \E visited \in RangeFiles(r, stop) :
         call' = [op |-> "RangeFiles", nilReceiver |-> r.isNil, stop |-> stop,
                  visited |-> visited]
    /\ UNCHANGED <<filesByPackage, filesByPath>>
    /\ UNCHANGED binderVars

\* r.RangeFilesByPath(path, f)
RangeByPath(r, path, stop) ==
    /\ call = NoCall
    /\ call' = [op |-> "RangeFilesByPath", nilReceiver |-> r.isNil,
                path |-> path, stop |-> stop,
                visited |-> RangeFilesByPath(r, path, stop)]
    /\ UNCHANGED <<filesByPackage, filesByPath>>
    /\ UNCHANGED binderVars

\* The caller takes the result; the next call can start.
Return ==
    /\ call # NoCall
    /\ call' = NoCall
    /\ UNCHANGED <<filesByPackage, filesByPath>>
    /\ UNCHANGED binderVars

\* The callbacks: one that never returns false, and for each registered file
\* one that returns false for it.
Callbacks == {{}} \cup {{f} : f \in RegisteredFiles(filesByPackage)}

\* The lookups made on a nil *Files.
NilLookup ==
    \/ \E name \in KnownNames : Find(NilFiles, name)
    \/ \E pkg \in KnownNames : RangeByPackage(NilFiles, pkg, {})
    \/ RangeAll(NilFiles, {})
    \/ \E path \in LookupPaths : RangeByPath(NilFiles, path, {})

Next ==
    \/ \E files \in Batches : Register(files)
    \/ \E name \in LookupNames : Find(R, name)
    \/ \E pkg \in LookupPackages, stop \in Callbacks : RangeByPackage(R, pkg, stop)
    \/ \E stop \in Callbacks : RangeAll(R, stop)
    \/ \E path \in LookupPaths, stop \in Callbacks : RangeByPath(R, path, stop)
    \/ NilLookup
    \/ Return

Spec == Init /\ [][Next]_vars

-----------------------------------------------------------------------------
(* The specifications of the message type *)

\* The steps of a caller through an entry point and init.
InitStep(c) ==
    \/ \E p \in Records : MessageOf(c, p)
    \/ \E p \in Records : KnownFieldsOf(c, p)
    \/ \E p \in Records : UnknownFieldsOf(c, p)
    \/ OnceDo(c)
    \/ InitShape(c)
    \/ GenerateFieldFuncs(c)
    \/ ClassifyField(c)
    \/ TypeCheck(c)
    \/ Release(c)

\* The calls of a caller on the known-fields facade.
FacadeStep(c) ==
    \/ FieldsLen(c)
    \/ \E n \in OpNumbers : FieldsHas(c, n)
    \/ \E n \in OpNumbers : FieldsGet(c, n)
    \/ \E n \in OpNumbers : \E val \in SetValues(mi.fields, n) : FieldsSet(c, n, val)
    \/ \E n \in OpNumbers : FieldsClear(c, n)
    \/ \E n \in OpNumbers : FieldsMutable(c, n)
    \/ \E stop \in SUBSET {1, 2} : FieldsRange(c, stop)
    \/ \E x \in Scalars : VectorAppend(c, x)
    \/ \E k \in 0..MaxLen : VectorTruncate(c, k)
    \/ \E k \in MapKeys, x \in Scalars : MapSet(c, k, x)
    \/ \E k \in MapKeys : MapClear(c, k)
    \/ VectorLen(c)
    \/ \E i \in 0..MaxLen : VectorGet(c, i)
    \/ \E i \in 0..MaxLen, x \in Scalars : VectorSet(c, i, x)
    \/ MapLen(c)
    \/ \E k \in MapKeys : MapHas(c, k)
    \/ \E k \in MapKeys : MapGet(c, k)
    \/ \E stop \in SUBSET MapKeys : MapRange(c, stop)
    \/ OpReturn

\* Callers that enter init of one MessageType concurrently.
InitInit == RegistryIdle /\ \E md \in Descriptors : BinderInit(md)
InitNext == \E c \in Callers : InitStep(c)
InitSpec == InitInit /\ [][InitNext]_vars

\* One caller that binds a MessageType and works on a record through the
\* known-fields facade.
FieldsInit == RegistryIdle /\ \E md \in Descriptors : BinderInit(md)
FieldsNext == InitStep("c1") \/ FacadeStep("c1")
FieldsSpec == FieldsInit /\ [][FieldsNext]_vars

\* A caller that makes locators of records and derives locators of fields.
\* The record holds the value 1 in the slot of its first field, or nothing.
LocatorInit ==
    /\ RegistryIdle
    /\ \E md \in Descriptors :
         /\ mi = NewMessageType(md)
         /\ pc = [c \in Callers |-> Idle(NoPanic)]
         /\ msg \in {ZeroMessage(md),
                     [ZeroMessage(md) EXCEPT ![SlotName(md.fields[1])].v = 1]}
         /\ op = NoOp
         /\ built = NothingBuilt
LocatorNext ==
    \/ \E index \in FieldIndexes : OffsetOf(index)
    \/ \E p \in Records, isNil \in BOOLEAN : PointerOfIface(p, isNil)
    \/ \E f \in FieldIndexes : Apply(f)
    \/ \E t \in AsTypes : AsType(t)
    \/ OpReturn
LocatorSpec == LocatorInit /\ [][LocatorNext]_vars


-----------------------------------------------------------------------------
(* Register and FindDescriptorByName, step by step *)

\* Files holds no lock: a FindDescriptorByName that runs while Register runs
\* reads root.subs and root.files between Register's writes. Register is
\* modelled here one access to the registry at a time, in the order of the
\* code, and so is FindDescriptorByName. The running Register call is kept
\* in call: the file it is at (i), the place in the loop body (at), root,
\* what is left of the package (pkg) and of the declarations (decls),
\* conflicts, firstErr, the outcome of the files done, and the registry from
\* before the call. The running lookup is kept in op.

\* The files and the names of the interleaved calls.
RaceFiles == {fileAM, fileAN, fileANMb, fileAMb, fileDup, filePlaceholder}
RaceBatches == SeqsUpTo(RaceFiles, MaxBatch) \ {<<>>}
RaceNames == UNION {DeclaredFullNames(f) : f \in RaceFiles}

Registering(files, i, at, root, pkg, decls, conflicts, firstErr, outcomes, before, beforePath) ==
    [op |-> "Registering", files |-> files, i |-> i, at |-> at, root |-> root,
     pkg |-> pkg, decls |-> decls, conflicts |-> conflicts, firstErr |-> firstErr,
     outcomes |-> outcomes, before |-> before, beforePath |-> beforePath]

\* The pass over the current file ends with outcome and err.
nextFile(outcome, err) ==
    [call EXCEPT !.i = @ + 1, !.at = "file", !.root = <<>>, !.pkg = <<>>,
                 !.decls = <<>>, !.conflicts = <<>>,
                 !.firstErr = IF err = NilError THEN @ ELSE keepFirstErr(@, err),
                 !.outcomes = Append(@, outcome)]

\* r.Register(files...) is called.
RegisterBegin(files) ==
    /\ call = NoCall
    /\ op = NoOp
    /\ NumFiles(filesByPackage) + Len(files) <= MaxFiles
    /\ call' = Registering(files, 1, "file", <<>>, <<>>, <<>>, <<>>, NilError, <<>>,
                           filesByPackage, filesByPath)
    /\ UNCHANGED <<filesByPackage, filesByPath, mi, pc, msg, op, built>>

\* The head of the fileLoop: the loop ends, or a placeholder is passed over,
\* or the package loop of the next file begins at the trie's root.
RegisterFile ==
    /\ call.op = "Registering"
    /\ call.at = "file"
    /\ call' = IF call.i > Len(call.files) THEN [call EXCEPT !.at = "return"]
               ELSE IF call.files[call.i].placeholder THEN nextFile("skipped", NilError)
               ELSE [call EXCEPT !.at = "walk", !.root = <<>>,
                                 !.pkg = call.files[call.i].pkg]
    /\ UNCHANGED <<filesByPackage, filesByPath, mi, pc, msg, op, built>>

\* One pass of the package loop: the read of root.subs[prefix] and, for nil,
\* the write of the new node.
RegisterWalk ==
    /\ call.op = "Registering"
    /\ call.at = "walk"
    /\ LET file   == call.files[call.i]
           prefix == splitPrefix(call.pkg)[1]
           rest   == splitPrefix(call.pkg)[2]
           next   == Sub(filesByPackage, call.root, prefix)
       IN  IF Len(call.pkg) = 0
           THEN /\ call' = [call EXCEPT !.at = "mark",
                                        !.decls = rangeTopLevelDeclarations(file)]
                /\ filesByPackage' = filesByPackage
           ELSE CASE next = "nil" ->
                       /\ filesByPackage' = AddNode(filesByPackage, call.root, prefix)
                       /\ call' = [call EXCEPT !.root = Append(@, prefix), !.pkg = rest]
                  [] next = "notProtoPackage" ->
                       /\ filesByPackage' = filesByPackage
                       /\ call' = nextFile("packageConflict",
                                     ConflictError(file.path,
                                       TrimSuffix(TrimSuffix(file.pkg, rest), <<Dot>>)))
                  [] OTHER ->
                       /\ filesByPackage' = filesByPackage
                       /\ call' = [call EXCEPT !.root = Append(@, prefix), !.pkg = rest]
    /\ UNCHANGED <<filesByPath, mi, pc, msg, op, built>>

\* RegisterMark appending the file to root.files when it looks at the first
\* of its names, before the names are checked.
RegisterMarkAppendingFirst ==
    /\ call.op = "Registering"
    /\ call.at = "mark"
    /\ LET s     == Head(call.decls)
           first == call.decls = rangeTopLevelDeclarations(call.files[call.i])
           fbp   == IF first /\ call.decls # <<>>
                    THEN AppendFile(filesByPackage, call.root, call.files[call.i])
                    ELSE filesByPackage
       IN  IF call.decls = <<>>
           THEN /\ filesByPackage' = filesByPackage
                /\ call' = IF Len(call.conflicts) > 0
                           THEN [call EXCEPT !.at = "unmark",
                                   !.conflicts = sortNames(@),
                                   !.decls = rangeTopLevelDeclarations(call.files[call.i])]
                           ELSE [call EXCEPT !.at = "append"]
           ELSE IF Sub(filesByPackage, call.root, s) = "nil"
           THEN /\ filesByPackage' = MarkDeclaration(fbp, call.root, s)
                /\ call' = [call EXCEPT !.decls = Tail(@)]
           ELSE /\ filesByPackage' = fbp
                /\ call' = [call EXCEPT !.decls = Tail(@), !.conflicts = Append(@, s)]
    /\ UNCHANGED <<filesByPath, mi, pc, msg, op, built>>

\* One call of the function of the first rangeTopLevelDeclarations: the read
\* of root.subs[s] and, for nil, the write of the sentinel. After the last
\* name the test len(conflicts) > 0 and sort.Slice.
RegisterMark ==
    /\ call.op = "Registering"
    /\ call.at = "mark"
    /\ LET s == Head(call.decls)
       IN  IF call.decls = <<>>
           THEN /\ filesByPackage' = filesByPackage
                /\ call' = IF Len(call.conflicts) > 0
                           THEN [call EXCEPT !.at = "unmark",
                                   !.conflicts = sortNames(@),
                                   !.decls = rangeTopLevelDeclarations(call.files[call.i])]
                           ELSE [call EXCEPT !.at = "append"]
           ELSE IF Sub(filesByPackage, call.root, s) = "nil"
           THEN /\ filesByPackage' = MarkDeclaration(filesByPackage, call.root, s)
                /\ call' = [call EXCEPT !.decls = Tail(@)]
           ELSE /\ filesByPackage' = filesByPackage
                /\ call' = [call EXCEPT !.decls = Tail(@), !.conflicts = Append(@, s)]
    /\ UNCHANGED <<filesByPath, mi, pc, msg, op, built>>

\* One call of the function of the second rangeTopLevelDeclarations: the
\* delete of a name that is not in conflicts. After the last name firstErr
\* is set and the loop goes to the next file.
RegisterUnmark ==
    /\ call.op = "Registering"
    /\ call.at = "unmark"
    /\ LET file == call.files[call.i]
           s    == Head(call.decls)
           i    == searchNames(call.conflicts, s)
           kept == i <= Len(call.conflicts) /\ call.conflicts[i] = s
       IN  IF call.decls = <<>>
           THEN /\ filesByPackage' = filesByPackage
                /\ call' = nextFile("nameConflict",
                              ConflictError(file.path,
                                FullNameAppend(file.pkg, call.conflicts[1])))
           ELSE /\ filesByPackage' = IF kept THEN filesByPackage
                                     ELSE DeleteSub(filesByPackage, call.root, s)
                /\ call' = [call EXCEPT !.decls = Tail(@)]
    /\ UNCHANGED <<filesByPath, mi, pc, msg, op, built>>

\* root.files = append(root.files, file)
RegisterAppend ==
    /\ call.op = "Registering"
    /\ call.at = "append"
    /\ filesByPackage' = AppendFile(filesByPackage, call.root, call.files[call.i])
    /\ call' = [call EXCEPT !.at = "index"]
    /\ UNCHANGED <<filesByPath, mi, pc, msg, op, built>>

\* r.filesByPath[file.Path()] = append(r.filesByPath[file.Path()], file)
RegisterIndex ==
    /\ call.op = "Registering"
    /\ call.at = "index"
    /\ filesByPath' = AppendByPath(filesByPath, call.files[call.i])
    /\ call' = nextFile("accepted", NilError)
    /\ UNCHANGED <<filesByPackage, mi, pc, msg, op, built>>

\* return firstErr; the lookups that run have ended.
RegisterReturn ==
    /\ call.op = "Registering"
    /\ call.at = "return"
    /\ op = NoOp
    /\ call' = NoCall
    /\ UNCHANGED <<filesByPackage, filesByPath, mi, pc, msg, op, built>>

\* The running lookup: the name, the place (at), root, what is left of the
\* name (pkg), and at the end the result, the file list it read and the
\* position in it of the file that held the descriptor (0: none).
Finding(name, at, root, pkg, res, list, j) ==
    [op |-> "Finding", name |-> name, at |-> at, root |-> root, pkg |-> pkg,
     res |-> res, list |-> list, j |-> j]

\* The lookup ends in a fatal error of the runtime or in a panic.
Crashed == FindResult(NilDescriptor, "crash")

\* The element of a slice that append has made room for but not yet written.
NilFile == [kind |-> "nil"]

\* r.FindDescriptorByName(name) is called while Register runs.
FindBegin(name) ==
    /\ call.op = "Registering"
    /\ op = NoOp
    /\ op' = Finding(name, "segment", <<>>, name, FindResult(NilDescriptor, NotFound), <<>>, 0)
    /\ UNCHANGED <<filesByPackage, filesByPath, call, mi, pc, msg, built>>

\* Register is about to write the map root.subs of the node the lookup reads.
WritesSubsOf(root) ==
    /\ call.op = "Registering"
    /\ call.at \in {"walk", "mark", "unmark"}
    /\ call.root = root

\* One pass of the segment loop: the read of root.subs[prefix]. The read of
\* a map that Register writes is a data race: it gives what the map holds
\* before or after that write (the step is taken before or after the step
\* of Register), or the runtime ends the program (concurrent map read and
\* map write).
FindSegment ==
    /\ op.op = "Finding"
    /\ op.at = "segment"
    /\ LET prefix == splitPrefix(op.pkg)[1]
           rest   == splitPrefix(op.pkg)[2]
           next   == Sub(filesByPackage, op.root, prefix)
       IN  \/ op' = IF Len(op.pkg) = 0 \/ next = "nil" THEN [op EXCEPT !.at = "done"]
                    ELSE IF next = "notProtoPackage" THEN [op EXCEPT !.at = "range"]
                    ELSE [op EXCEPT !.root = Append(@, prefix), !.pkg = rest]
           \/ /\ Len(op.pkg) > 0
              /\ WritesSubsOf(op.root)
              /\ op' = [op EXCEPT !.at = "done", !.res = Crashed]
    /\ UNCHANGED <<filesByPackage, filesByPath, call, mi, pc, msg, built>>

\* The position of the first file of list that holds a descriptor for name;
\* 0 when there is none.
searchPosition(list, name) ==
    LET hits == {j \in 1..Len(list) : DescriptorByName(list[j], name) # NilDescriptor}
    IN  IF hits = {} THEN 0 ELSE CHOOSE j \in hits : \A k \in hits : j <= k

\* The loop over root.files: the read of the slice and the search. A read
\* that races with Register's append to the same slice gives the slice from
\* before or after it, or the longer slice whose last element is not yet
\* written, on which DescriptorByName panics.
FindRange ==
    /\ op.op = "Finding"
    /\ op.at = "range"
    /\ LET list == filesByPackage.files[op.root]
           j    == searchPosition(list, op.name)
           torn == /\ call.op = "Registering"
                   /\ call.at = "append"
                   /\ call.root = op.root
       IN  \/ op' = [op EXCEPT !.at = "done", !.list = list, !.j = j,
                       !.res = searchFiles(list, op.name)]
           \/ /\ torn
              /\ op' = [op EXCEPT !.at = "done", !.list = Append(list, NilFile), !.j = j,
                          !.res = IF j = 0 THEN Crashed ELSE searchFiles(list, op.name)]
    /\ UNCHANGED <<filesByPackage, filesByPath, call, mi, pc, msg, built>>

\* The lookup returns.
FindReturn ==
    /\ op.op = "Finding"
    /\ op.at = "done"
    /\ op' = NoOp
    /\ UNCHANGED <<filesByPackage, filesByPath, call, mi, pc, msg, built>>

RaceNext ==
    \/ \E files \in RaceBatches : RegisterBegin(files)
    \/ RegisterFile
    \/ RegisterWalk
    \/ RegisterMark
    \/ RegisterUnmark
    \/ RegisterAppend
    \/ RegisterIndex
    \/ RegisterReturn
    \/ \E name \in RaceNames : FindBegin(name)
    \/ FindSegment
    \/ FindRange
    \/ FindReturn

RaceSpec == Init /\ [][RaceNext]_vars

-----------------------------------------------------------------------------
(* Notions used to state the properties *)

\* The dotted segments of a package name: the trie node of the package.
RECURSIVE PackageNode(_)
PackageNode(pkg) ==
    IF Len(pkg) = 0 THEN <<>>
    ELSE <<splitPrefix(pkg)[1]>> \o PackageNode(splitPrefix(pkg)[2])

\* The names marked notProtoPackage, each with its node: node \o <<name>>.
Marks(fbp) == {k \in DOMAIN fbp.subs : fbp.subs[k] = "notProtoPackage"}

\* The file list of a node; empty for a node the trie does not hold.
FileList(fbp, node) ==
    IF node \in DOMAIN fbp.files THEN fbp.files[node] ELSE <<>>

Distinct(seq) == \A i, j \in 1..Len(seq) : i # j => seq[i] # seq[j]

Count(seq, x) == Cardinality({i \in 1..Len(seq) : seq[i] = x})

\* The accepted registrations: a node and a position in its file list.
Registrations(fbp) ==
    UNION {{<<n, i>> : i \in 1..Len(fbp.files[n])} : n \in DOMAIN fbp.files}

\* How many times file is registered.
TimesRegistered(fbp, file) ==
    Cardinality({reg \in Registrations(fbp) : fbp.files[reg[1]][reg[2]] = file})

Rejected == {"packageConflict", "nameConflict"}

\* One attempt to register file in the registry as it is now.
Attempt(file) ==
    registerFile([filesByPackage |-> filesByPackage, filesByPath |-> filesByPath,
                  firstErr |-> NilError, outcomes |-> <<>>], file)

-----------------------------------------------------------------------------
(* Properties *)

\* C1: a file with pairwise distinct top-level names that Register rejects
\* because one of its names is already in the subs map of its package node
\* leaves the registry as it was: the marked names of every node, the file
\* list of every node and the path index are those from before the attempt.
C1_NameConflictIsAtomic ==
    \A file \in FileUniverse :
        (/\ ~file.placeholder
         /\ Distinct(rangeTopLevelDeclarations(file))
         /\ Attempt(file).outcomes = <<"nameConflict">>)
        => LET after == Attempt(file)
           IN  /\ Marks(after.filesByPackage) = Marks(filesByPackage)
               /\ \A n \in DOMAIN after.filesByPackage.files \cup DOMAIN filesByPackage.files :
                      FileList(after.filesByPackage, n) = FileList(filesByPackage, n)
               /\ after.filesByPath = filesByPath

\* A Register call has just rejected a file for a name conflict although one
\* of its names was free: that name is not marked now.
C1_Witness ==
    /\ call.op = "Register"
    /\ \E i \in 1..Len(call.files) :
         /\ call.outcomes[i] = "nameConflict"
         /\ Distinct(rangeTopLevelDeclarations(call.files[i]))
         /\ \E j \in 1..Len(rangeTopLevelDeclarations(call.files[i])) :
              Sub(filesByPackage, PackageNode(call.files[i].pkg),
                  rangeTopLevelDeclarations(call.files[i])[j]) = "nil"

\* C2: no two accepted registrations of one package declare the same
\* top-level name, and no accepted file declares a name that is a sub-package
\* segment directly below its package node.
C2_NoCollisionAmongAccepted ==
    /\ \A r1, r2 \in Registrations(filesByPackage) :
         LET f1 == filesByPackage.files[r1[1]][r1[2]]
             f2 == filesByPackage.files[r2[1]][r2[2]]
             d1 == rangeTopLevelDeclarations(f1)
             d2 == rangeTopLevelDeclarations(f2)
         IN  (r1 # r2 /\ f1.pkg = f2.pkg)
             => \A i \in 1..Len(d1), j \in 1..Len(d2) : d1[i] # d2[j]
    /\ \A reg \in Registrations(filesByPackage) :
         LET f == filesByPackage.files[reg[1]][reg[2]]
             d == rangeTopLevelDeclarations(f)
         IN  \A i \in 1..Len(d) :
                 Sub(filesByPackage, PackageNode(f.pkg), d[i]) # "pkg"

\* A Register call has just returned, two files of one package are
\* registered and the package has a sub-package node with a file of its own.
C2_Witness ==
    /\ call.op = "Register"
    /\ \E r1, r2, r3 \in Registrations(filesByPackage) :
         /\ r1 # r2
         /\ r1[1] = r2[1]
         /\ Len(r3[1]) = Len(r1[1]) + 1
         /\ IsPrefixOf(r1[1], r3[1])
         /\ Len(rangeTopLevelDeclarations(filesByPackage.files[r1[1]][r1[2]])) > 0
         /\ Len(rangeTopLevelDeclarations(filesByPackage.files[r2[1]][r2[2]])) > 0

\* A sequence without its i-th element.
RemoveAt(seq, i) == SubSeq(seq, 1, i - 1) \o SubSeq(seq, i + 1, Len(seq))

\* C3: within one Register call a rejected file does not affect the others:
\* the registry after the call, and what happened to every other file, are
\* what the same call without the rejected file gives.
C3_RejectedFileHasNoEffect ==
    [][call'.op = "Register" =>
         \A i \in 1..Len(call'.files) :
             call'.outcomes[i] \in Rejected =>
                 LET without == RegisterResult(filesByPackage, filesByPath,
                                               RemoveAt(call'.files, i))
                 IN  /\ without.filesByPackage = filesByPackage'
                     /\ without.filesByPath = filesByPath'
                     /\ without.outcomes = RemoveAt(call'.outcomes, i)]_vars

\* C4: Register returns an error exactly when it rejected one of the files,
\* and the error is the one of the first rejected file: the error that
\* file's pass through the loop produces, which names the file's path.
C4_FirstErrorIsReturned ==
    [][call'.op = "Register" =>
         LET files == call'.files
             rej   == {i \in 1..Len(files) : call'.outcomes[i] \in Rejected}
         IN  /\ (call'.err # NilError) <=> (rej # {})
             /\ rej # {} =>
                  LET i      == CHOOSE k \in rej : \A m \in rej : k <= m
                      before == RegisterResult(filesByPackage, filesByPath,
                                               SubSeq(files, 1, i - 1))
                      own    == registerFile([before EXCEPT !.firstErr = NilError],
                                             files[i])
                  IN  /\ call'.err = own.firstErr
                      /\ call'.err.path = files[i].path]_vars

\* A Register call rejected two files of different paths and returned the
\* error of the first.
C4_Witness ==
    /\ call.op = "Register"
    /\ Len(call.files) >= 2
    /\ call.outcomes[1] \in Rejected
    /\ call.outcomes[2] \in Rejected
    /\ call.files[1].path # call.files[2].path
    /\ call.err.path = call.files[1].path

\* C5: every top-level name of every accepted file resolves, through
\* FindDescriptorByName, to that file's descriptor; a descriptor returned by
\* a lookup is one of a registered file that declares the name.
C5_FindResolvesAccepted ==
    /\ \A reg \in Registrations(filesByPackage) :
         LET f == filesByPackage.files[reg[1]][reg[2]]
             d == rangeTopLevelDeclarations(f)
         IN  \A i \in 1..Len(d) :
                 FindDescriptorByName(R, FullNameAppend(f.pkg, d[i]))
                   = FindResult(Descriptor(f, FullNameAppend(f.pkg, d[i])), "nil")
    /\ (call.op = "FindDescriptorByName" /\ call.res.d # NilDescriptor)
         => /\ call.res.d.file \in RegisteredFiles(filesByPackage)
            /\ call.res.d.name = call.name
            /\ call.name \in DeclaredFullNames(call.res.d.file)

\* A Register call has just rejected a file over a name that still resolves
\* to the descriptor of the file registered first.
C5_Witness ==
    /\ call.op = "Register"
    /\ \E i \in 1..Len(call.files) :
         /\ call.outcomes[i] = "nameConflict"
         /\ call.files[i] \notin RegisteredFiles(filesByPackage)
         /\ \E j \in 1..Len(rangeTopLevelDeclarations(call.files[i])) :
              LET name == FullNameAppend(call.files[i].pkg,
                                         rangeTopLevelDeclarations(call.files[i])[j])
              IN  /\ FindDescriptorByName(R, name).d # NilDescriptor
                  /\ FindDescriptorByName(R, name).d.file # call.files[i]

\* C6: FindDescriptorByName returns (nil, NotFound) for every name that no
\* accepted file declares, and for every name on a nil registry.
C6_FindMissIsNotFound ==
    \A name \in LookupNames :
        /\ FindDescriptorByName(NilFiles, name) = FindResult(NilDescriptor, NotFound)
        /\ (\A f \in RegisteredFiles(filesByPackage) : name \notin DeclaredFullNames(f))
             => FindDescriptorByName(R, name) = FindResult(NilDescriptor, NotFound)

\* A lookup of a three-segment name whose second segment is a declaration of
\* a registered file, which holds no such nested name, returned NotFound.
C6_Witness ==
    /\ call.op = "FindDescriptorByName"
    /\ ~call.nilReceiver
    /\ call.res = FindResult(NilDescriptor, NotFound)
    /\ Len(PackageNode(call.name)) = 3
    /\ SubSeq(PackageNode(call.name), 1, 2) \in Marks(filesByPackage)
    /\ FileList(filesByPackage, SubSeq(PackageNode(call.name), 1, 1)) # <<>>

\* No segment on the way to the package of file is a declaration, and no
\* name of file is in the subs map of its package node.
CollidesWithNothing(file) ==
    LET node == PackageNode(file.pkg)
        d    == rangeTopLevelDeclarations(file)
    IN  /\ \A k \in 1..Len(node) : SubSeq(node, 1, k) \notin Marks(filesByPackage)
        /\ \A i \in 1..Len(d) : Append(node, d[i]) \notin DOMAIN filesByPackage.subs
        /\ Distinct(d)

\* C7: a file whose path is that of a registered file, and whose names
\* collide with nothing, is accepted; RangeFilesByPath(path) visits every
\* registration with that path, and no file of another path.
C7_SamePathIsNoConflict ==
    /\ \A f \in RegisteredFiles(filesByPackage), g \in FileUniverse :
         (g.path = f.path /\ ~g.placeholder /\ CollidesWithNothing(g))
           => /\ Attempt(g).outcomes = <<"accepted">>
              /\ Count(Attempt(g).filesByPath[g.path], f) >= 1
              /\ Count(Attempt(g).filesByPath[g.path], g) >= 1
    /\ \A path \in LookupPaths, f \in FileUniverse :
         Count(RangeFilesByPath(R, path, {}), f)
           = IF f.path = path THEN TimesRegistered(filesByPackage, f) ELSE 0

\* RangeFilesByPath has visited two different files registered under one path.
C7_Witness ==
    /\ call.op = "RangeFilesByPath"
    /\ ~call.nilReceiver
    /\ call.stop = {}
    /\ Len(call.visited) >= 2
    /\ call.visited[1] # call.visited[2]
    /\ call.visited[1].path = call.path
    /\ call.visited[2].path = call.path

\* C8: a registered file stays registered over every step: every traversal
\* of RangeFiles, of RangeFilesByPackage of its package and of
\* RangeFilesByPath of its path still visits it, and each of its top-level
\* names resolves to the same descriptor as before.
C8_RegistrationIsMonotonic ==
    [][\A f \in RegisteredFiles(filesByPackage) :
         LET after == FilesOf(filesByPackage', filesByPath')
             d     == rangeTopLevelDeclarations(f)
         IN  /\ \A v \in RangeFiles(after, {}) :
                    Count(v, f) >= TimesRegistered(filesByPackage, f)
             /\ \A v \in RangeFilesByPackage(after, f.pkg, {}) :
                    Count(v, f) >= TimesRegistered(filesByPackage, f)
             /\ Count(RangeFilesByPath(after, f.path, {}), f)
                    >= TimesRegistered(filesByPackage, f)
             /\ \A i \in 1..Len(d) :
                    /\ FindDescriptorByName(after, FullNameAppend(f.pkg, d[i]))
                         = FindDescriptorByName(R, FullNameAppend(f.pkg, d[i]))
                    /\ FindDescriptorByName(after, FullNameAppend(f.pkg, d[i])).d
                         = Descriptor(f, FullNameAppend(f.pkg, d[i]))]_vars

\* A Register call that accepted one file and rejected another has returned,
\* and the registry holds a file registered by an earlier call.
C8_Witness ==
    /\ call.op = "Register"
    /\ \E i, j \in 1..Len(call.files) :
         /\ call.outcomes[i] \in Rejected
         /\ call.outcomes[j] = "accepted"
    /\ NumFiles(filesByPackage)
         > Cardinality({i \in 1..Len(call.files) : call.outcomes[i] = "accepted"})

\* C9: RangeFilesByPackage(prefix, f) calls f on no file of package prefix
\* after a file of another package, and before it calls f on a file of
\* another package it has called f on every registration of package prefix.
C9_ExactMatchesFirst ==
    (call.op = "RangeFilesByPackage" /\ ~call.nilReceiver) =>
        LET v     == call.visited
            other == {j \in 1..Len(v) : v[j].pkg # call.pkg}
        IN  /\ \A i, j \in 1..Len(v) :
                   (i < j /\ v[j].pkg = call.pkg) => v[i].pkg = call.pkg
            /\ other # {} =>
                 \A f \in RegisteredFiles(filesByPackage) :
                     f.pkg = call.pkg =>
                         Count(SelectSeq(v, LAMBDA x : x.pkg = call.pkg), f)
                           = TimesRegistered(filesByPackage, f)

\* A traversal visited a file of the package itself and then a file of a
\* sub-package.
C9_Witness ==
    /\ call.op = "RangeFilesByPackage"
    /\ ~call.nilReceiver
    /\ Len(call.pkg) > 0
    /\ Len(call.visited) >= 2
    /\ call.visited[1].pkg = call.pkg
    /\ call.visited[Len(call.visited)].pkg # call.pkg

\* The package pkg is prefix or extends it by whole dotted segments.
PackageMatches(prefix, pkg) ==
    \/ prefix = <<>>
    \/ pkg = prefix
    \/ IsPrefixOf(prefix \o <<Dot>>, pkg)

\* C10: with a callback that always returns true, RangeFilesByPackage(prefix)
\* visits each registration whose package is prefix or extends it by whole
\* dotted segments exactly once, and nothing else: nothing for a prefix that
\* ends in a dot, that names a declaration or that has no trie node, and
\* every registration for the empty prefix.
C10_VisitsExactlyThePackageSubtree ==
    (/\ call.op \in {"RangeFilesByPackage", "RangeFiles"}
     /\ ~call.nilReceiver
     /\ call.stop = {}) =>
        LET prefix == IF call.op = "RangeFiles" THEN <<>> ELSE call.pkg
        IN  \A f \in FileUniverse :
                Count(call.visited, f)
                  = IF PackageMatches(prefix, f.pkg)
                    THEN TimesRegistered(filesByPackage, f) ELSE 0

\* RangeFilesByPackage("a") has visited a file of package a and one of
\* package a.b, and not the registered file of package ab.
C10_Witness ==
    /\ call.op = "RangeFilesByPackage"
    /\ ~call.nilReceiver
    /\ call.stop = {}
    /\ call.pkg = nA
    /\ Len(call.visited) = 2
    /\ \E i \in 1..2 : call.visited[i].pkg = nA
    /\ \E i \in 1..2 : call.visited[i].pkg = <<"a", ".", "b">>
    /\ \E f \in RegisteredFiles(filesByPackage) : f.pkg = nAB

\* The number of times file was accepted by the Register call that has just
\* returned in call.
AcceptedIn(c, file) ==
    Cardinality({i \in 1..Len(c.files) :
                   c.files[i] = file /\ c.outcomes[i] = "accepted"})

\* C11: RangeFiles with a callback that always returns true visits nothing
\* in the new registry, and over every Register call the number of times
\* each traversal visits a file grows by the number of times the call
\* accepted the file: not at all for a rejected or a placeholder file. No
\* other step changes what RangeFiles visits.
C11_RangeFilesVisitsAcceptedOnce ==
    /\ RangeFiles(R, {}) = {<<>>}
    /\ [][IF call'.op = "Register"
          THEN \A v \in RangeFiles(R, {}),
                  w \in RangeFiles(FilesOf(filesByPackage', filesByPath'), {}) :
                   \A f \in FileUniverse :
                       Count(w, f) = Count(v, f) + AcceptedIn(call', f)
          ELSE RangeFiles(FilesOf(filesByPackage', filesByPath'), {})
                 = RangeFiles(R, {})]_vars

\* RangeFiles has visited a file twice that was accepted twice, in a registry
\* that holds a marked name left by a rejected file.
C11_Witness ==
    /\ call.op = "RangeFiles"
    /\ ~call.nilReceiver
    /\ call.stop = {}
    /\ \E f \in FileUniverse :
         /\ Count(call.visited, f) = 2
         /\ TimesRegistered(filesByPackage, f) = 2
    /\ \E k \in Marks(filesByPackage) :
         \A f \in RegisteredFiles(filesByPackage) :
             \A i \in 1..Len(rangeTopLevelDeclarations(f)) :
                 Append(PackageNode(f.pkg), rangeTopLevelDeclarations(f)[i]) # k

LookupOps ==
    {"FindDescriptorByName", "RangeFiles", "RangeFilesByPackage", "RangeFilesByPath"}

\* What the lookup recorded in c returns on the registry r.
LookupResults(c, r) ==
    LET rr == IF c.nilReceiver THEN NilFiles ELSE r
    IN  CASE c.op = "FindDescriptorByName" -> {FindDescriptorByName(rr, c.name)}
          [] c.op = "RangeFiles" -> RangeFiles(rr, c.stop)
          [] c.op = "RangeFilesByPackage" -> RangeFilesByPackage(rr, c.pkg, c.stop)
          [] c.op = "RangeFilesByPath" -> {RangeFilesByPath(rr, c.path, c.stop)}

LookupResult(c) == IF c.op = "FindDescriptorByName" THEN c.res ELSE c.visited

-----------------------------------------------------------------------------
(* Properties of the message type *)

\* The caller c is past init: its entry point has returned a facade.
PastInit(c) == pc[c].at = "facade"

\* The dispatch table holds a dispatcher for every field of the descriptor.
TableComplete ==
    /\ ~mi.fields.isNil
    /\ DOMAIN mi.fields.tab = FieldNumbers(mi.Desc)

\* C13: generateFieldFuncs runs at most once, and a caller is past init only
\* when that one run has been made and has returned, the mutex of the Once
\* being free again.
C13_ClassificationRunsOnceBeforeCallersProceed ==
    /\ built.runs <= 1
    /\ \A c \in Callers :
         PastInit(c) => /\ built.runs = 1
                        /\ built.returned
                        /\ mi.once = OnceDone

\* C14: a caller that is past init holds a facade whose dispatch table has a
\* dispatcher for every field of the descriptor.
C14_NoPartialTableAfterInit ==
    \A c \in Callers : PastInit(c) => TableComplete

\* The caller c ends its call of init in this step: by a panic or by the
\* return of the entry point.
EndsInit(c) ==
    /\ pc[c].at \in {"once", "shape", "generate", "field", "check"}
    /\ pc'[c].at \in {"idle", "facade"}

PtrToStruct(t) ==
    /\ t \in PointerTypes
    /\ Kind(Elem(t)) = "Struct"

\* C16: the test of f on a p whose type is no pointer to a struct panics, and
\* leaves mi.goType unset.
C16_ShapeCheckRejectsNonStructPointers ==
    [][\A c \in Callers :
         (pc[c].at = "shape" /\ pc'[c].at # "shape" /\ ~PtrToStruct(pc[c].p))
           => /\ pc'[c] = Idle(ShapePanic)
              /\ mi'.goType = NilType]_vars

\* The tests of the classification in their order, and the first one a field
\* descriptor satisfies.
Tests == <<"weak", "oneof", "map", "vector", "message", "scalar">>

Satisfies(fd, test) ==
    CASE test = "weak" -> fd.isWeak
      [] test = "oneof" -> fd.oneof # NoOneof
      [] test = "map" -> fd.isMap
      [] test = "vector" -> fd.cardinality = "repeated"
      [] test = "message" -> fd.kind \in {"message", "group"}
      [] test = "scalar" -> TRUE

FirstMatch(fd) ==
    Tests[CHOOSE i \in 1..Len(Tests) :
            /\ Satisfies(fd, Tests[i])
            /\ \A j \in 1..(i - 1) : ~Satisfies(fd, Tests[j])]

\* C17: every fieldInfoFor function that generateFieldFuncs calls, and every
\* dispatcher of the table, is of the variant of the first test its field
\* satisfies; no field is classified twice; the table holds dispatchers of
\* fields of the descriptor only, each under its own number, and one for
\* every field once generateFieldFuncs has returned.
C17_ClassificationByFirstMatch ==
    /\ \A k \in 1..Len(built.calls) :
         /\ built.calls[k].variant
              = FirstMatch(FieldByNumber(mi.Desc, built.calls[k].number))
         /\ \A j \in 1..Len(built.calls) :
                built.calls[j].number = built.calls[k].number => j = k
    /\ DOMAIN mi.fields.tab \subseteq FieldNumbers(mi.Desc)
    /\ \A n \in DOMAIN mi.fields.tab :
         /\ mi.fields.tab[n].fd = FieldByNumber(mi.Desc, n)
         /\ mi.fields.tab[n].variant = FirstMatch(FieldByNumber(mi.Desc, n))
    /\ built.returned => TableComplete

\* generateFieldFuncs has returned a table with the dispatcher of a field
\* that satisfies four of the tests: map, repeated, message and scalar.
C17_Witness ==
    /\ built.returned
    /\ \E n \in DOMAIN mi.fields.tab :
         Cardinality({i \in 1..Len(Tests) : Satisfies(mi.fields.tab[n].fd, Tests[i])}) >= 4

\* C18: on a field number with no dispatcher in the table, Set, Clear and
\* Mutable panic and leave the record as it was; Has returns false and Get
\* returns the zero Value, and neither panics.
C18_UnknownFieldNumber ==
    (/\ op.op \in {"Has", "Get", "Set", "Clear", "Mutable"}
     /\ op.n \notin DOMAIN mi.fields.tab)
      => /\ msg = op.before
         /\ op.op \in {"Set", "Clear", "Mutable"} => op.panic
         /\ op.op = "Has" => ~op.panic /\ ~op.b
         /\ op.op = "Get" => ~op.panic /\ op.val = InvalidValue

\* Set has panicked on the number of a field of the descriptor that has no
\* dispatcher, on a record that holds a value in another field.
C18_Witness ==
    /\ op.op = "Set"
    /\ op.panic
    /\ op.n \in FieldNumbers(mi.Desc) \ DOMAIN mi.fields.tab
    /\ \E n \in DOMAIN mi.fields.tab : has(mi.fields.tab[n], msg)

\* The field numbers n for which Has(n) returns true.
PresentNumbers(c) ==
    {n \in OpNumbers \cup FieldNumbers(mi.Desc) :
       LET r == knownFieldsHas(fsOf(c), msg, n) IN ~r.panic /\ r.b}

\* C19: whenever Len returns, it returns the number of field numbers n of
\* the descriptor for which Has(n) returns true.
C19_LenCountsPresentFields ==
    \A c \in Callers :
        HoldsKnownFields(c) =>
            /\ LET r == knownFieldsLen(fsOf(c), msg)
               IN  ~r.panic =>
                     r.cnt = Cardinality(PresentNumbers(c) \cap FieldNumbers(mi.Desc))
            /\ (op.op = "Len" /\ op.c = c /\ ~op.panic) =>
                 op.cnt = Cardinality(PresentNumbers(c) \cap FieldNumbers(mi.Desc))

\* Len has returned 2 for a record of three fields, one of which is absent
\* and one of which is a message.
C19_Witness ==
    /\ op.op = "Len"
    /\ ~op.panic
    /\ op.cnt = 2
    /\ Cardinality(DOMAIN mi.fields.tab) = 3
    /\ \E n \in DOMAIN mi.fields.tab :
         mi.fields.tab[n].variant = "message" /\ has(mi.fields.tab[n], msg)

\* C20: Range calls f with present field numbers only, each with the value
\* Get returns for it, and with none twice; the only call in which f returns
\* false is the last one; when f returns false in no call, f is called with
\* every present field number.
C20_RangeVisitsPresentFieldsOnce ==
    (op.op = "Range" /\ ~op.panic) =>
        LET v == op.visited
        IN  /\ \A i \in 1..Len(v) :
                 /\ v[i][1] \in PresentNumbers(op.c)
                 /\ v[i][2] = knownFieldsGet(fsOf(op.c), msg, v[i][1]).val
                 /\ \A j \in 1..Len(v) : v[j][1] = v[i][1] => j = i
                 /\ v[i][1] \in op.stop => i = Len(v)
            /\ (\A i \in 1..Len(v) : v[i][1] \notin op.stop)
                 => {v[i][1] : i \in 1..Len(v)} = PresentNumbers(op.c)
            /\ msg = op.before

\* Range has ended after its first call of f, which returned false, on a
\* record with two present fields and an absent one.
C20_Witness ==
    /\ op.op = "Range"
    /\ ~op.panic
    /\ Len(op.visited) = 1
    /\ op.visited[1][1] \in op.stop
    /\ Cardinality(PresentNumbers(op.c)) = 2
    /\ Cardinality(DOMAIN mi.fields.tab) = 3


-----------------------------------------------------------------------------
(* Properties of the registry: duplicates and placeholders *)

\* The full names of the top-level declarations of a file.
TopLevelFullNames(file) ==
    {FullNameAppend(file.pkg, rangeTopLevelDeclarations(file)[i]) :
        i \in 1..Len(rangeTopLevelDeclarations(file))}

\* Two occurrences of one file, or two files that declare the same full
\* name; a placeholder file is no duplicate of anything.
Duplicates(f, g) ==
    /\ ~f.placeholder
    /\ ~g.placeholder
    /\ \/ f = g
       \/ TopLevelFullNames(f) \cap TopLevelFullNames(g) # {}

\* C29: when a file is given more than once, or two files declare the same
\* full name, the first one takes precedence: no file is registered more
\* than once, no two registered files are duplicates of each other, and a
\* Register call accepts no file that duplicates an earlier file of its
\* argument list; NewFiles returns a registry, with no file registered more
\* than once.
C29_FirstDuplicateTakesPrecedence ==
    /\ \A f \in RegisteredFiles(filesByPackage) :
         /\ TimesRegistered(filesByPackage, f) = 1
         /\ \A g \in RegisteredFiles(filesByPackage) \ {f} : ~Duplicates(f, g)
    /\ call.op = "Register" =>
         \A j \in 1..Len(call.files) :
             (\E i \in 1..(j - 1) : Duplicates(call.files[i], call.files[j]))
               => call.outcomes[j] # "accepted"
    /\ (call = NoCall /\ filesByPackage = EmptyFilesByPackage) =>
         \A files \in Batches :
             /\ ~NewFiles(files).isNil
             /\ \A f \in RegisteredFiles(NewFiles(files).filesByPackage) :
                    TimesRegistered(NewFiles(files).filesByPackage, f) = 1

\* The test that keeps the files of an argument list that are no placeholders.
IsNoPlaceholder(file) == ~file.placeholder

\* C30: a placeholder file given to Register is ignored: every Register
\* call leaves the registry (trie nodes, marked names, file lists, path
\* index) and returns the error that the same call without its placeholder
\* files gives, and it skips each placeholder file.
C30_PlaceholderIsIgnored ==
    [][call'.op = "Register" =>
         LET files == call'.files
             res   == RegisterResult(filesByPackage, filesByPath,
                                     SelectSeq(files, IsNoPlaceholder))
         IN  /\ filesByPackage' = res.filesByPackage
             /\ filesByPath' = res.filesByPath
             /\ call'.err = res.firstErr
             /\ \A i \in 1..Len(files) :
                    files[i].placeholder <=> call'.outcomes[i] = "skipped"]_vars

\* Register has returned from a call with a placeholder file and a file it
\* rejected, on a registry that holds a file of the placeholder's package.
C30_Witness ==
    /\ call.op = "Register"
    /\ \E i, j \in 1..Len(call.files) :
         /\ call.files[i].placeholder
         /\ call.outcomes[j] \in Rejected
         /\ FileList(filesByPackage, PackageNode(call.files[i].pkg)) # <<>>
    /\ call.err # NilError

-----------------------------------------------------------------------------
(* Properties of the field dispatchers *)

\* The field numbers of the table whose dispatcher is of a variant, and the
\* scalar ones of a syntax.
FieldsOfVariant(variant) ==
    {n \in DOMAIN mi.fields.tab : mi.fields.tab[n].variant = variant}

ScalarFields(syntax) ==
    {n \in FieldsOfVariant("scalar") : mi.fields.tab[n].fd.syntax = syntax}

\* The caller holds a facade of a record before and after the step, and the
\* step is a call of the facade for field n that returns.
OnFacade(c) ==
    /\ HoldsKnownFields(c)
    /\ HoldsKnownFields(c)'
    /\ ~applyPanics(pc[c].p)

IsCall(name, n) ==
    /\ op = NoOp
    /\ op'.op = name
    /\ op'.n = n
    /\ ~op'.panic

\* What Has(n) and Get(n) give on the record m.
HasOn(c, m, n) == knownFieldsHas(fsOf(c), m, n).b
GetOn(c, m, n) == knownFieldsGet(fsOf(c), m, n).val

\* The slot of field n in the record m, and in the never-set record.
SlotOf(m, n) == m[SlotName(mi.fields.tab[n].fd)]
NeverSet == ZeroMessage(mi.Desc)

\* C21: for a scalar field n with explicit presence and declared default d:
\* on the never-set record Has(n) is false and Get(n) is d; a Set(n, v) makes
\* Has(n) true and Get(n) equal to v, for every v; a Clear(n) makes Has(n)
\* false and Get(n) equal to d; no other step changes what Has(n) and Get(n)
\* give; and whenever Has(n) is false, Get(n) is d.
C21_ExplicitPresenceScalar ==
    [][\A c \in Callers : OnFacade(c) =>
         \A n \in ScalarFields("proto2") :
             LET d == ValueOf(mi.fields.tab[n].fd.default)
             IN  /\ msg = NeverSet => ~HasOn(c, msg, n)
                 /\ ~HasOn(c, msg, n) => GetOn(c, msg, n) = d
                 /\ IF IsCall("Set", n)
                    THEN HasOn(c, msg', n) /\ GetOn(c, msg', n) = op'.arg
                    ELSE IF IsCall("Clear", n)
                    THEN ~HasOn(c, msg', n) /\ GetOn(c, msg', n) = d
                    ELSE /\ HasOn(c, msg', n) = HasOn(c, msg, n)
                         /\ GetOn(c, msg', n) = GetOn(c, msg, n)]_vars

\* Clear has returned for a field with default 1 that held the value 0, which
\* is the zero value, and Has and Get now give false and the default.
C21_Witness ==
    /\ op.op = "Clear"
    /\ ~op.panic
    /\ op.n \in ScalarFields("proto2")
    /\ mi.fields.tab[op.n].fd.default = 1
    /\ HasOn(op.c, op.before, op.n)
    /\ GetOn(op.c, op.before, op.n) = ValueOf(0)
    /\ ~HasOn(op.c, msg, op.n)
    /\ GetOn(op.c, msg, op.n) = ValueOf(1)

\* C22: for a scalar field n of a schema without presence: Has(n) is true
\* exactly when the stored value is not the zero value, and Get(n) gives the
\* stored value, the zero value when Has(n) is false; a Set(n, v) stores v,
\* and for the zero value leaves the slot as in the never-set record; a
\* Clear(n) returns the slot to the never-set record; no other step changes
\* the slot.
C22_PresenceLessScalar ==
    [][\A c \in Callers : OnFacade(c) =>
         \A n \in ScalarFields("proto3") :
             /\ HasOn(c, msg, n) <=> SlotOf(msg, n).v # 0
             /\ GetOn(c, msg, n) = ValueOf(SlotOf(msg, n).v)
             /\ IF IsCall("Set", n)
                THEN /\ GetOn(c, msg', n) = op'.arg
                     /\ HasOn(c, msg', n) <=> op'.arg # ValueOf(0)
                     /\ op'.arg = ValueOf(0) => SlotOf(msg', n) = SlotOf(NeverSet, n)
                ELSE IF IsCall("Clear", n)
                THEN /\ SlotOf(msg', n) = SlotOf(NeverSet, n)
                     /\ ~HasOn(c, msg', n)
                     /\ GetOn(c, msg', n) = ValueOf(0)
                ELSE SlotOf(msg', n) = SlotOf(msg, n)]_vars

\* Set has stored the zero value in a field of a schema without presence
\* that held another value: the record is the never-set record again.
C22_Witness ==
    /\ op.op = "Set"
    /\ ~op.panic
    /\ op.n \in ScalarFields("proto3")
    /\ op.arg = ValueOf(0)
    /\ HasOn(op.c, op.before, op.n)
    /\ ~HasOn(op.c, msg, op.n)
    /\ msg = NeverSet

\* The members of the oneof group of field n, n included.
GroupOf(n) ==
    {k \in FieldsOfVariant("oneof") :
        mi.fields.tab[k].fd.oneof = mi.fields.tab[n].fd.oneof}

\* A caller holds a facade on which the dispatchers can be called.
Usable(c) ==
    /\ HoldsKnownFields(c)
    /\ ~applyPanics(pc[c].p)

\* C23: in every record at most one member of a oneof group has Has true;
\* when Set(B, y) has returned for a member B, Has(B) is true, Get(B) gives
\* y, and Has(A) is false for every other member A of the group, whichever
\* member was set before.
C23_AtMostOneMemberPresent ==
    \A c \in Callers : Usable(c) =>
        /\ \A n \in FieldsOfVariant("oneof") :
               Cardinality({k \in GroupOf(n) : HasOn(c, msg, k)}) <= 1
        /\ (op # NoOp /\ op.op = "Set" /\ ~op.panic /\ op.n \in FieldsOfVariant("oneof")) =>
               /\ HasOn(c, msg, op.n)
               /\ GetOn(c, msg, op.n) = op.arg
               /\ \A k \in GroupOf(op.n) \ {op.n} : ~HasOn(c, msg, k)

\* Set(B, y) has returned on a record in which another member A was the
\* active one.
C23_Witness ==
    /\ op.op = "Set"
    /\ ~op.panic
    /\ op.n \in FieldsOfVariant("oneof")
    /\ \E k \in GroupOf(op.n) \ {op.n} :
         /\ HasOn(op.c, op.before, k)
         /\ ~HasOn(op.c, msg, k)
    /\ HasOn(op.c, msg, op.n)

\* C24: Get of a member of a oneof that is not the active one gives the
\* declared default of that member; Clear of such a member leaves the record
\* as it was; Clear of the active member leaves the slot of the group as in
\* the never-set record, with no member present.
C24_InactiveMember ==
    \A c \in Callers : Usable(c) =>
        /\ \A n \in FieldsOfVariant("oneof") :
               ~HasOn(c, msg, n) =>
                   GetOn(c, msg, n) = ValueOf(mi.fields.tab[n].fd.default)
        /\ (op # NoOp /\ op.op = "Clear" /\ ~op.panic /\ op.n \in FieldsOfVariant("oneof")) =>
               IF HasOn(c, op.before, op.n)
               THEN /\ SlotOf(msg, op.n) = SlotOf(NeverSet, op.n)
                    /\ \A k \in GroupOf(op.n) : ~HasOn(c, msg, k)
               ELSE msg = op.before

\* Clear has returned for a member that is not the active one, while the
\* active member holds a value that is not the default of the cleared one,
\* and the record is as it was.
C24_Witness ==
    /\ op.op = "Clear"
    /\ ~op.panic
    /\ op.n \in FieldsOfVariant("oneof")
    /\ \E k \in GroupOf(op.n) \ {op.n} :
         /\ HasOn(op.c, msg, k)
         /\ GetOn(op.c, msg, k) # GetOn(op.c, msg, op.n)
    /\ msg = op.before

-----------------------------------------------------------------------------
(* Properties of the handles of repeated fields and map fields *)

\* The call on a handle that has just returned, and the sequence or the map
\* of its field before the call and now.
HandleCall(name) ==
    /\ op # NoOp
    /\ op.op = name
    /\ ~op.panic

ListBefore == op.before[HandleSlot].list
ListNow == msg[HandleSlot].list
MapBefore == op.before[HandleSlot].map
MapNow == msg[HandleSlot].map

\* The index or the key a call on a handle was given.
ArgIndex == op.arg.list[1]

\* C25: the handle of a repeated field is a sequence: Append(v) adds v at
\* the end and raises the length by one; Set(i, v) with 0 <= i < len
\* replaces element i and no other; Truncate(k) keeps the first k elements
\* in their order; Get(i) gives the element at i, and Len the length.
C25_VectorIsASequence ==
    /\ HandleCall("Append") =>
         /\ Len(ListNow) = Len(ListBefore) + 1
         /\ ListNow[Len(ListNow)] = op.arg.v
         /\ SubSeq(ListNow, 1, Len(ListBefore)) = ListBefore
    /\ (op # NoOp /\ op.op = "VectorSet" /\ ArgIndex < Len(ListBefore)) =>
         /\ ~op.panic
         /\ Len(ListNow) = Len(ListBefore)
         /\ \A j \in 0..(Len(ListNow) - 1) :
                ListNow[j + 1] = IF j = ArgIndex THEN op.arg.v ELSE ListBefore[j + 1]
    /\ HandleCall("Truncate") =>
         /\ Len(ListNow) = op.arg.v
         /\ \A j \in 1..Len(ListNow) : ListNow[j] = ListBefore[j]
    /\ (op # NoOp /\ op.op = "VectorGet" /\ ArgIndex < Len(ListBefore)) =>
         /\ ~op.panic
         /\ op.val = ValueOf(ListNow[ArgIndex + 1])
         /\ ListNow = ListBefore
    /\ HandleCall("VectorLen") =>
         /\ op.cnt = Len(ListNow)
         /\ ListNow = ListBefore

\* Truncate(1) has returned on the sequence [0, 1, 0], which is now [0].
C25_Witness ==
    /\ HandleCall("Truncate")
    /\ op.arg.v = 1
    /\ ListBefore = <<0, 1, 0>>
    /\ ListNow = <<0>>

\* The pairs of a traversal, as a set.
PairsOf(visited) == {visited[i] : i \in 1..Len(visited)}

\* C26: the handle of a map field is a finite map: Set(k, v) makes k present
\* with the value v and changes no other key, so that the length stays for a
\* present key; Clear(k) removes k and changes no other key, and changes
\* nothing for an absent key; Len gives the number of present keys, Has(k)
\* whether k is present, Get(k) the value of k, and the zero Value for an
\* absent key; Range with a callback that always returns true visits every
\* present pair once and no other pair.
C26_MapIsAFiniteMap ==
    /\ HandleCall("MapSet") =>
         /\ DOMAIN MapNow = DOMAIN MapBefore \cup {ArgIndex}
         /\ MapNow[ArgIndex] = op.arg.v
         /\ \A k \in DOMAIN MapBefore \ {ArgIndex} : MapNow[k] = MapBefore[k]
    /\ HandleCall("MapClear") =>
         /\ DOMAIN MapNow = DOMAIN MapBefore \ {ArgIndex}
         /\ \A k \in DOMAIN MapNow : MapNow[k] = MapBefore[k]
         /\ ArgIndex \notin DOMAIN MapBefore => msg = op.before
    /\ HandleCall("MapLen") =>
         /\ op.cnt = Cardinality(DOMAIN MapNow)
         /\ msg = op.before
    /\ HandleCall("MapHas") =>
         /\ op.b <=> ArgIndex \in DOMAIN MapNow
         /\ msg = op.before
    /\ HandleCall("MapGet") =>
         /\ op.val = IF ArgIndex \in DOMAIN MapNow
                     THEN ValueOf(MapNow[ArgIndex]) ELSE InvalidValue
         /\ msg = op.before
    /\ (HandleCall("MapRange") /\ op.stop = {}) =>
         /\ PairsOf(op.visited) = {<<k, ValueOf(MapNow[k])>> : k \in DOMAIN MapNow}
         /\ Len(op.visited) = Cardinality(DOMAIN MapNow)
         /\ msg = op.before

\* Range has visited the one pair left in a map, with a value that is not
\* the zero value.
C26_Witness ==
    /\ HandleCall("MapRange")
    /\ op.stop = {}
    /\ op.visited = <<<<2, ValueOf(1)>>>>
    /\ DOMAIN MapNow = {2}

-----------------------------------------------------------------------------
(* Properties of record shapes and field locators *)

\* C27: binding a record whose struct declares an embedded struct field
\* aborts init: no caller that gave such a record gets past init, and a
\* MessageType bound to such a type has no dispatch table.
C27_EmbeddedStructAborts ==
    /\ \A c \in Callers : pc[c].p = "*E" => ~PastInit(c)
    /\ mi.goType = "*E" => DOMAIN mi.fields.tab = {}

\* The locator p addresses a struct: it is a pointer, not nil, to a struct.
AddressesStruct(p) ==
    /\ p.valid
    /\ TypeKind(p.typ) = "Ptr"
    /\ ~p.isNil
    /\ TypeKind(TypeElem(p.typ)) = "Struct"

\* The locator p addresses a value of type t.
AddressesType(p, t) ==
    /\ p.valid
    /\ Len(p.typ) > 1
    /\ TypeElem(p.typ) = t

\* C28: apply on a locator that does not address a struct panics; asType(t)
\* panics when the locator does not address a value of type t, and returns
\* the locator's own Value otherwise; an apply that returns gives a new
\* locator, of the field f of the struct the parent addresses; and a call of
\* apply or asType changes neither the locator it is called on nor the
\* record. For the locator of a record, apply panics exactly when the
\* dispatchers called on the facade of that record panic.
C28_LocatorFailsFastAndIsPure ==
    /\ (op # NoOp /\ op.op = "apply") =>
         /\ ~AddressesStruct(op.parent) => op.panic
         /\ ~op.panic =>
              /\ op.res.valid
              /\ op.res # op.parent
              /\ op.res.path = op.parent.path \o op.f
              /\ op.res.typ = PtrTo(FieldType(TypeElem(op.parent.typ), op.f[1]))
    /\ (op # NoOp /\ op.op = "asType") =>
         /\ ~AddressesType(op.parent, op.t) => op.panic
         /\ ~op.panic => op.res = op.parent
    /\ \A p \in Records :
         applyPanics(p) <=> apply(pointerOfIface(p, FALSE), <<0>>, mi.Desc).panic
    /\ [][op'.op \in {"apply", "asType"} =>
            /\ op'.parent = op.res
            /\ msg' = msg
            /\ op'.before = msg]_vars

\* apply has returned the locator of the field of an embedded struct, from
\* the locator of that struct, in a record that is not empty.
C28_Witness ==
    /\ op # NoOp
    /\ op.op = "apply"
    /\ ~op.panic
    /\ op.parent.typ = <<"*", "Base">>
    /\ op.res.path = <<0, 0>>
    /\ msg # ZeroMessage(mi.Desc)

-----------------------------------------------------------------------------
(* Properties of the registry: collisions, traversal, consistency *)

\* The segments of file's package that are marked as a declaration at the
\* node of the segments before them.
MarkedSegments(file) ==
    {k \in 1..Len(PackageNode(file.pkg)) :
        SubSeq(PackageNode(file.pkg), 1, k) \in Marks(filesByPackage)}

\* C31: a file whose package path passes through a segment that is marked as
\* a top-level declaration is rejected with a conflict error that names the
\* file's path, and the attempt leaves the whole registry as it was: no trie
\* node, no marked name, no file-list entry and no path-index entry is added.
C31_PackageThroughDeclarationIsRejected ==
    \A file \in FileUniverse :
        (~file.placeholder /\ MarkedSegments(file) # {})
        => LET after == Attempt(file)
           IN  /\ after.outcomes = <<"packageConflict">>
               /\ after.firstErr.kind = "conflict"
               /\ after.firstErr.path = file.path
               /\ after.filesByPackage = filesByPackage
               /\ after.filesByPath = filesByPath

\* A Register call has just rejected a file whose package passes through a
\* name that an accepted file of the registry declares.
C31_Witness ==
    /\ call.op = "Register"
    /\ \E i \in 1..Len(call.files) :
         /\ call.outcomes[i] = "packageConflict"
         /\ MarkedSegments(call.files[i]) # {}
         /\ \E k \in MarkedSegments(call.files[i]), f \in RegisteredFiles(filesByPackage) :
              /\ PackageNode(f.pkg) = SubSeq(PackageNode(call.files[i].pkg), 1, k - 1)
              /\ \E j \in 1..Len(rangeTopLevelDeclarations(f)) :
                   rangeTopLevelDeclarations(f)[j] = PackageNode(call.files[i].pkg)[k]

\* The top-level names that the accepted files of a node declare.
DeclaredAt(node) ==
    UNION {{rangeTopLevelDeclarations(FileList(filesByPackage, node)[i])[j] :
               j \in 1..Len(rangeTopLevelDeclarations(FileList(filesByPackage, node)[i]))} :
           i \in 1..Len(FileList(filesByPackage, node))}

\* file collides with nothing that is registered: none of its names is
\* declared by an accepted file of its package or is a sub-package segment
\* of its package node, and no segment of its package is declared by an
\* accepted file of the package before that segment.
NoRealCollision(file) ==
    LET node  == PackageNode(file.pkg)
        decls == rangeTopLevelDeclarations(file)
    IN  /\ \A j \in 1..Len(decls) :
             /\ decls[j] \notin DeclaredAt(node)
             /\ Sub(filesByPackage, node, decls[j]) # "pkg"
        /\ \A k \in 1..Len(node) :
             node[k] \notin DeclaredAt(SubSeq(node, 1, k - 1))

\* C32: Register rejects a non-placeholder file only for a real collision:
\* a file with pairwise distinct names that collides with nothing registered
\* (NoRealCollision) is accepted, whatever other packages declare.
C32_OnlyRealCollisionsReject ==
    \A file \in FileUniverse :
        (/\ ~file.placeholder
         /\ Distinct(rangeTopLevelDeclarations(file))
         /\ NoRealCollision(file))
        => Attempt(file).outcomes = <<"accepted">>

RangeOps == {"RangeFiles", "RangeFilesByPackage", "RangeFilesByPath"}

\* C33: RangeFiles, RangeFilesByPackage and RangeFilesByPath stop at the
\* first callback that returns false: a file for which the callback returns
\* false is the last file of the traversal, whether the files after it are in
\* the same list, in a sibling node or in a deeper node.
C33_RangeStopsAtFirstFalse ==
    call.op \in RangeOps =>
        \A i \in 1..Len(call.visited) :
            call.visited[i] \in call.stop => i = Len(call.visited)

\* A traversal of the trie has just been stopped by the callback at a file of
\* one node, while another node holds files of which none was visited.
C33_Witness ==
    /\ call.op \in {"RangeFiles", "RangeFilesByPackage"}
    /\ ~call.nilReceiver
    /\ Len(call.visited) > 0
    /\ call.visited[Len(call.visited)] \in call.stop
    /\ LET at == PackageNode(call.visited[Len(call.visited)].pkg)
       IN  \E n \in DOMAIN filesByPackage.files :
             /\ n # at
             /\ FileList(filesByPackage, n) # <<>>
             /\ \A i \in 1..Len(call.visited) :
                    PackageNode(call.visited[i].pkg) # n

\* C34: a file that declares the same top-level name twice, registered into a
\* package where none of its names is present, is rejected, and no name of
\* that file is marked in the trie afterwards.
C34_SelfConflictLeavesNoMark ==
    \A file \in FileUniverse :
        LET node  == PackageNode(file.pkg)
            decls == rangeTopLevelDeclarations(file)
            after == Attempt(file)
        IN  (/\ ~file.placeholder
             /\ ~Distinct(decls)
             /\ MarkedSegments(file) = {}
             /\ \A j \in 1..Len(decls) : Sub(filesByPackage, node, decls[j]) = "nil")
            => /\ after.outcomes = <<"nameConflict">>
               /\ \A j \in 1..Len(decls) :
                      Sub(after.filesByPackage, node, decls[j]) = "nil"

\* C37: a name is marked as a top-level declaration at a package node if and
\* only if some file in the file list of that node declares it.
C37_MarksAreDeclarationsOfAcceptedFiles ==
    /\ \A k \in Marks(filesByPackage) :
           k[Len(k)] \in DeclaredAt(SubSeq(k, 1, Len(k) - 1))
    /\ \A n \in DOMAIN filesByPackage.files :
           \A d \in DeclaredAt(n) : Append(n, d) \in Marks(filesByPackage)

\* How many times file is in the path index.
TimesIndexed(fbpath, file) ==
    Cardinality({<<p, i>> \in UNION {{<<q, j>> : j \in 1..Len(fbpath[q])} : q \in DOMAIN fbpath} :
                    fbpath[p][i] = file})

\* C38: between Register calls the package trie and the path index hold the
\* same registrations: every file is as many times in the file lists of the
\* trie as in the lists of the path index, every file of a node's list has
\* the package of that node, and every file of a path's list has that path.
C38_TrieAndPathIndexAgree ==
    /\ \A file \in FileUniverse :
           TimesRegistered(filesByPackage, file) = TimesIndexed(filesByPath, file)
    /\ \A n \in DOMAIN filesByPackage.files :
           \A i \in 1..Len(filesByPackage.files[n]) :
               PackageNode(filesByPackage.files[n][i].pkg) = n
    /\ \A p \in DOMAIN filesByPath :
           \A i \in 1..Len(filesByPath[p]) : filesByPath[p][i].path = p

\* A Register call has just accepted a file; the registry holds one file
\* twice, and two files of different packages under one path.
C38_Witness ==
    /\ call.op = "Register"
    /\ \E i \in 1..Len(call.files) : call.outcomes[i] = "accepted"
    /\ \E file \in FileUniverse : TimesRegistered(filesByPackage, file) = 2
    /\ \E p \in DOMAIN filesByPath :
         \E i, j \in 1..Len(filesByPath[p]) :
             filesByPath[p][i].pkg # filesByPath[p][j].pkg

-----------------------------------------------------------------------------
(* Properties of the binder and the facade: frame conditions *)

\* C35: once the first init of a MessageType has completed (once.Do has
\* returned or panicked, so done is set), no step of any caller - a later
\* init through MessageOf, KnownFieldsOf or UnknownFieldsOf with any record,
\* or a call on the facade or on a handle - changes the bound type, the
\* message type wrapper or the table of dispatchers; and the bound type,
\* once assigned, is never assigned another value.
C35_BindingIsImmutableAfterInit ==
    [][/\ mi.once.done => /\ mi'.goType = mi.goType
                          /\ mi'.pbType = mi.pbType
                          /\ mi'.fields = mi.fields
                          /\ mi'.once = mi.once
       /\ mi.goType # NilType => mi'.goType = mi.goType]_vars

\* The table is complete, the record was changed through the facade, and a
\* later init with a record of another type has just ended in the mismatch
\* panic.
C35_Witness ==
    /\ mi.once.done
    /\ TableComplete
    /\ msg # ZeroMessage(mi.Desc)
    /\ \E c \in Callers : pc[c].out = MismatchPanic

\* The number of elements the container field n of the record m holds.
Elements(m, n) ==
    IF mi.fields.tab[n].variant = "vector" THEN Len(SlotOf(m, n).list)
    ELSE Cardinality(DOMAIN SlotOf(m, n).map)

\* C36: for a repeated or map field n, Has(n) is true exactly when the
\* container holds an element, in every record reached through the handle
\* and through Set and Clear: it is true after Append and after Set of a map
\* key, also on the empty field; false after Truncate(0), after Clear of the
\* last map key and after Clear(n); and after Set(n, v) it tells whether v
\* holds an element.
C36_ContainerPresentIffNonEmpty ==
    \A c \in Callers : Usable(c) =>
        \A n \in FieldsOfVariant("vector") \cup FieldsOfVariant("map") :
            /\ HasOn(c, msg, n) <=> Elements(msg, n) > 0
            /\ (op # NoOp /\ op.n = n /\ ~op.panic) =>
                 /\ op.op \in {"Append", "MapSet"} => HasOn(c, msg, n)
                 /\ (op.op = "Truncate" /\ op.arg.v = 0) => ~HasOn(c, msg, n)
                 /\ (op.op = "MapClear" /\ DOMAIN op.before[HandleSlot].map \subseteq {ArgIndex})
                      => ~HasOn(c, msg, n)
                 /\ op.op = "Clear" => ~HasOn(c, msg, n)
                 /\ op.op = "Set" =>
                      (HasOn(c, msg, n) <=> (Len(op.arg.list) > 0 \/ DOMAIN op.arg.map # {}))

\* The last key of a map that held one entry has just been cleared through
\* the handle, or a vector that held elements truncated to length 0, and
\* Has of the field is false.
C36_Witness ==
    /\ Usable("c1")
    /\ op # NoOp
    /\ ~op.panic
    /\ \/ /\ op.op = "MapClear"
          /\ DOMAIN op.before[HandleSlot].map = {ArgIndex}
       \/ /\ op.op = "Truncate"
          /\ op.arg.v = 0
          /\ Len(op.before[HandleSlot].list) > 1
    /\ ~HasOn("c1", msg, op.n)

\* The fields whose Has and Get a Set or Clear of field n may change: n, and
\* the members of the oneof group of n.
FrameOf(n) == {n} \cup (IF mi.fields.tab[n].variant = "oneof" THEN GroupOf(n) ELSE {})

\* C40: Set(n, v) and Clear(n) on a known field n leave Has and Get of every
\* other field number of the record as they were, except for the members of
\* the oneof group of n; Has, Get, Len and Range leave the record as it was.
C40_SetAndClearTouchOneField ==
    [][\A c \in Callers : OnFacade(c) =>
         /\ \A n \in DOMAIN mi.fields.tab :
              (IsCall("Set", n) \/ IsCall("Clear", n)) =>
                  \A k \in DOMAIN mi.fields.tab \ FrameOf(n) :
                      /\ HasOn(c, msg', k) = HasOn(c, msg, k)
                      /\ GetOn(c, msg', k) = GetOn(c, msg, k)
         /\ (op = NoOp /\ op'.op \in {"Has", "Get", "Len", "Range"}) => msg' = msg]_vars

\* Set has just returned and changed the record, in which another field,
\* outside the oneof group of the first, is present with a value that is not
\* the one it gives on the never-set record.
C40_Witness ==
    /\ Usable("c1")
    /\ op # NoOp
    /\ op.op = "Set"
    /\ ~op.panic
    /\ op.before # msg
    /\ \E k \in DOMAIN mi.fields.tab \ FrameOf(op.n) :
         /\ HasOn("c1", msg, k)
         /\ GetOn("c1", msg, k) # GetOn("c1", ZeroMessage(mi.Desc), k)

-----------------------------------------------------------------------------
(* Properties of the registry under interleaving *)

\* The files the running Register call has appended to a file list: those
\* it has accepted and, between the two appends, the one it is at.
AppendedSoFar ==
    LET done == {k \in 1..Len(call.outcomes) : call.outcomes[k] = "accepted"}
                   \cup (IF call.at = "index" THEN {call.i} ELSE {})
        RECURSIVE pick(_)
        pick(k) == IF k > Len(call.files) THEN <<>>
                   ELSE (IF k \in done THEN <<call.files[k]>> ELSE <<>>) \o pick(k + 1)
    IN  pick(1)

\* The files of seq with the package node n, in their order.
OfNode(seq, n) ==
    LET InNode(f) == PackageNode(f.pkg) = n
    IN  SelectSeq(seq, InNode)

\* The steps of Register make what Register makes: when the call is about to
\* return, the registry, firstErr and the outcomes are those of RegisterResult
\* on the registry from before the call.
StepsMakeRegister ==
    (call.op = "Registering" /\ call.at = "return") =>
        LET res == RegisterResult(call.before, call.beforePath, call.files)
        IN  /\ res.filesByPackage = filesByPackage
            /\ res.filesByPath = filesByPath
            /\ res.firstErr = call.firstErr
            /\ res.outcomes = call.outcomes

\* C39: while FindDescriptorByName runs interleaved, step by step, with a
\* Register call, the file list of every node is the list from before the
\* call followed by the files of that package the call has appended so far,
\* which are files it accepts: no file it rejects, or has not yet appended,
\* is ever in a list. A lookup that returns a descriptor has found it in a
\* file at a position of the list of its node, so the descriptor belongs to
\* a registration from before the call or to a file the call accepts, and
\* then the lookup read the list after the step that appended the file.
\* (A descriptor belongs to the registration it is found in: a file that is
\* registered and offered once more is rejected as the second registration.)
C39_FindSeesOnlyAcceptedRegistrations ==
    call.op = "Registering" =>
        /\ \A n \in DOMAIN filesByPackage.files :
               FileList(filesByPackage, n)
                 = FileList(call.before, n) \o OfNode(AppendedSoFar, n)
        /\ (op # NoOp /\ op.at = "done" /\ op.res.d # NilDescriptor) =>
               /\ op.j \in 1..Len(FileList(filesByPackage, op.root))
               /\ FileList(filesByPackage, op.root)[op.j] = op.res.d.file
               /\ op.res.d.name = op.name
               /\ op.j > Len(FileList(call.before, op.root)) =>
                      \E k \in 1..Len(call.files) :
                          /\ call.files[k] = op.res.d.file
                          /\ k < call.i \/ (k = call.i /\ call.at = "index")
                          /\ k < call.i => call.outcomes[k] = "accepted"
        /\ (op # NoOp /\ op.at = "done" /\ op.res.d = NilDescriptor) => op.j = 0

\* A lookup has just returned the descriptor of the file that the running
\* Register call appended one step ago and has not yet put into the path
\* index; one file of the call was rejected before.
C39_Witness ==
    /\ call.op = "Registering"
    /\ call.at = "index"
    /\ \E k \in 1..Len(call.outcomes) : call.outcomes[k] \in Rejected
    /\ op # NoOp
    /\ op.at = "done"
    /\ op.res.d # NilDescriptor
    /\ op.res.d.file = call.files[call.i]
    /\ op.j > Len(FileList(call.before, op.root))

\* A lookup of a name that the running call has marked, whose file is not
\* yet appended, has just returned NotFound.
SeesMarkBeforeAppend ==
    /\ call.op = "Registering"
    /\ call.at \in {"mark", "append"}
    /\ op # NoOp
    /\ op.at = "done"
    /\ op.res = FindResult(NilDescriptor, NotFound)
    /\ op.name \in DeclaredFullNames(call.files[call.i])
    /\ op.list = <<>>
    /\ Append(op.root, splitPrefix(op.pkg)[1]) \in Marks(filesByPackage) \ Marks(call.before)

=============================================================================
